---- MODULE Spec2Model ----
(***************************************************************************)
(* Verification model of the scribear transcription service.               *)
(*                                                                         *)
(* Part I models one worker process (worker_process.py) together with the  *)
(* main-process side that owns it (worker_process_manager.py): the two IPC *)
(* queues, the EDF scheduler, the lazy context table, the job handles and  *)
(* the result pump.                                                        *)
(*                                                                         *)
(* REGISTER_JOB tasks carry a tuple of context ids, as RegisterJobTask     *)
(* declares (task.py:38-42) and as WorkerProcess iterates it               *)
(* (worker_process.py:232,250).  Part I starts where register_job has      *)
(* accepted its arguments (worker_process_manager.py:378); the argument    *)
(* check of lines 375-376 is not part of it.                               *)
(*                                                                         *)
(* Part II models WorkerPool over its managers (worker_pool.py), Part III  *)
(* the rolling utilization window (worker_process_manager.py), Part IV the *)
(* circular sample buffer (np_circular_buffer.py), Part V the LocalAgree   *)
(* stabilizer (local_agree.py), Part VI the streaming job                  *)
(* (whisper_streaming_job.py), Part VII one websocket connection           *)
(* (websocket_handler.py, transcription_stream_controller.py) and Part     *)
(* VIII the event emitter (event_emitter.py).  Each part has its own       *)
(* variables and its own specification; the actions of a part leave the    *)
(* others unchanged.                                                       *)
(***************************************************************************)
EXTENDS Integers, Sequences, FiniteSets, TLC

\* ---------------------------------------------------------------- constants
NS_PER_MS == 1000000

\* Python None for an optional job id / an optional time
NoJob == -1
NoTime == -1

\* ------------------------------------------------------------------- bounds
MaxJobs == 2
MaxItems == 2
MaxBatch == 1
MaxTimeMs == 3
MaxResults == 3

\* context_def of the worker: ids 0 and 1.  Context 1 behaves like the test
\* fixture ErrorContext (create raises); destroy of context 0 may raise.
ContextDefIds == {0, 1}
CreateRaises == {1}
DestroyMayRaise == {0}
\* registrations the environment issues: <<context ids, period in ms>>
JobKinds == {<<<<0, 1>>, 2>>, <<<<0>>, 1>>}

JobIds == 0 .. (MaxJobs - 1)

VARIABLES
    \* ---- main process: WorkerProcessManager / JobHandle
    next_job_id,              \* _next_job_id
    registered_job_handles,   \* keys of _registered_job_handles
    job_context_ids,          \* _job_context_ids
    handle_queue_data,        \* handles whose _queue_data callback is not None
    handle_deregister,        \* handles whose _deregister callback is not None
    poller_running,           \* _result_poller_task not cancelled
    emitted,                  \* per handle: JobResult events emitted, in order
    \* ---- IPC
    task_queue,
    result_queue,
    \* ---- worker process: WorkerProcess
    pc,                       \* position in execution_loop
    state,                    \* _state
    last_state_change,        \* _last_state_change
    job_entries,              \* _job_entries (dict)
    entry_order,              \* insertion order of _job_entries
    instance_table,           \* _context_table._instance_table (dict)
    table_order,              \* insertion order of _instance_table
    should_exit,              \* _should_exit
    cur_job,                  \* job_id handed to _execute_job
    sched_time,               \* curr_time read by the last _scheduler call
    idle_until,               \* wake-up time of the blocking get, or NoTime
    \* ---- environment
    now,                      \* time.perf_counter_ns()
    \* ---- history of what the operations did
    next_item,                \* next fresh data item
    sent,                     \* per job: items passed to queue_data, in order
    dereg_sent,               \* per job: DEREGISTER_JOB tasks put on the queue
    qd_after_dereg,           \* per job: QUEUE_DATA tasks put after a DEREGISTER
    produced,                 \* per job: results the worker produced, in order
    live,                     \* context instances created and not yet destroyed
    created,                  \* per context id: number of create() calls
    executing,                \* jobs inside _execute_job
    elapsed_ns,               \* sum of time_elapsed_ns of the StateChangeResults put
    \* ---- Part II: WorkerPool and its WorkerProcessManagers
    p_utilization,            \* per process: manager.utilization, in tenths
    p_next_job_id,            \* per process: manager._next_job_id
    p_job_context_ids,        \* per process: manager._job_context_ids
    p_registered,             \* per process: keys of _registered_job_handles
    p_call,                   \* the last WorkerPool.register_job call
    p_outcomes,               \* history: how register_job calls have ended
    \* ---- Part III: _RollingUtilization
    u_window,                 \* _rolling_window_ns, NoWindow before __init__
    u_counters,               \* _total_time_ns, _idle_, _admin_, _busy_time_ns
    u_increments,             \* _increments (deque)
    u_calls,                  \* history: number of increment calls
    u_call,                   \* history: the last increment call
    \* ---- Part IV: NPCircularBuffer
    b_max_size,               \* _max_size, NoSize before __init__
    b_curr_size,              \* _curr_size
    b_buffer,                 \* _buffer, one cell per index
    b_next,                   \* history: next fresh sample
    b_admitted,               \* history: the samples append has stored
    b_offset,                 \* history: how far purge has moved the view
    b_call,                   \* history: the last append or purge call
    \* ---- Part V: LocalAgree
    l_local_agree_dim,        \* _local_agree_dim, NoDim before __init__
    l_commited_segments,      \* _commited_segments
    l_in_progress_segments,   \* _in_progress_segments, newest last
    l_commited_time,          \* _commited_time
    l_appends,                \* history: append_transcription calls so far
    l_recent,                 \* history: the newest hypotheses as supplied
    l_settled,                \* history: texts committed or force-finalized
    l_last_commit,            \* history: the segment committed last
    l_call,                   \* history: the last call and what it returned
    \* ---- Part VI: WhisperStreamingProviderJob
    j_local_agree_dim,        \* local_agree_dim of the config, NoDim before __init__
    j_buffer_len,             \* len(_buffer)
    j_buffer_offset_samples,  \* _buffer_offset_samples
    j_local_agree,            \* _local_agree
    j_last_finalized,         \* _last_finalized
    j_calls,                  \* history: process_batch calls so far
    j_failed,                 \* history: a process_batch call raised
    j_result,                 \* history: the last process_batch call
    \* ---- Part VII: TranscriptionStreamController over WebsocketHandler
    c_is_authenticated,       \* _is_authenticated
    c_session,                \* _session: None, or a session that is live or ended
    c_timeout_task,           \* _timeout_task
    c_application_state,      \* _ws.application_state
    c_client_state,           \* _ws.client_state
    c_tasks,                  \* the _close() tasks created and not yet run
    c_loop,                   \* receive_messages: awaiting a message or returned
    c_ws_close,               \* history: the arguments of the _ws.close() call
    c_sessions_created,       \* history: create_session calls that returned
    c_forwarded,              \* history: handle_audio_chunk calls
    c_last,                   \* history: the last step and the close() calls it made
    \* ---- Part VIII: EventEmitter
    e_listeners,              \* _listeners: event name -> list of wrappers
    e_history                 \* history: the registrations and the last call

mvars == <<next_job_id, registered_job_handles, job_context_ids,
           handle_queue_data, handle_deregister, poller_running, emitted>>
qvars == <<task_queue, result_queue>>
wvars == <<pc, state, last_state_change, job_entries, entry_order,
           instance_table, table_order, should_exit, cur_job, sched_time,
           idle_until>>
hvars == <<next_item, sent, dereg_sent, qd_after_dereg, produced, live,
           created, executing, elapsed_ns>>
pvars == <<p_utilization, p_next_job_id, p_job_context_ids, p_registered,
           p_call, p_outcomes>>
uvars == <<u_window, u_counters, u_increments, u_calls, u_call>>
bvars == <<b_max_size, b_curr_size, b_buffer, b_next, b_admitted, b_offset,
           b_call>>
p1vars == <<mvars, qvars, wvars, hvars, now>>
lvars == <<l_local_agree_dim, l_commited_segments, l_in_progress_segments,
           l_commited_time, l_appends, l_recent, l_settled, l_last_commit,
           l_call>>
jvars == <<j_local_agree_dim, j_buffer_len, j_buffer_offset_samples,
           j_local_agree, j_last_finalized, j_calls, j_failed, j_result>>
cvars == <<c_is_authenticated, c_session, c_timeout_task,
           c_application_state, c_client_state, c_tasks, c_loop, c_ws_close,
           c_sessions_created, c_forwarded, c_last>>
evars == <<e_listeners, e_history>>
vars == <<p1vars, pvars, uvars, bvars, lvars, jvars, cvars, evars>>

\* what the actions of Part I leave alone
frozen1 == <<pvars, uvars, bvars, lvars, jvars, cvars, evars>>
\* what the actions of Part II leave alone
frozen2 == <<p1vars, uvars, bvars, lvars, jvars, cvars, evars>>
\* what the actions of Part III leave alone
frozen3 == <<p1vars, pvars, bvars, lvars, jvars, cvars, evars>>
\* what the actions of Part IV leave alone
frozen4 == <<p1vars, pvars, uvars, lvars, jvars, cvars, evars>>
\* what the actions of Part V leave alone
frozen5 == <<p1vars, pvars, uvars, bvars, jvars, cvars, evars>>
\* what the actions of Part VI leave alone
frozen6 == <<p1vars, pvars, uvars, bvars, lvars, cvars, evars>>
\* what the actions of Part VII leave alone
frozen7 == <<p1vars, pvars, uvars, bvars, lvars, jvars, evars>>
\* what the actions of Part VIII leave alone
frozen8 == <<p1vars, pvars, uvars, bvars, lvars, jvars, cvars>>

\* ------------------------------------------------------------------ helpers
Range(s) == {s[i] : i \in 1 .. Len(s)}

RECURSIVE Flatten(_)
Flatten(ss) == IF ss = <<>> THEN <<>> ELSE Head(ss) \o Flatten(Tail(ss))

Remove(s, x) == SelectSeq(s, LAMBDA y : y /= x)

\* dict item assignment / deletion
DictSet(d, k, v) == [x \in (DOMAIN d) \cup {k} |-> IF x = k THEN v ELSE d[x]]
DictDel(d, k) == [x \in (DOMAIN d) \ {k} |-> d[x]]
OrderSet(o, k) == IF k \in Range(o) THEN o ELSE Append(o, k)

\* ------------------------------------------------------- _JobContextTable
\* mutant: get() never finds the instance and creates a new one every time
InstanceHitNever(context_id, tbl) == FALSE

\* worker_process.py:100 - get() reuses an instance that is in the table
InstanceHit(context_id, tbl) == context_id \in DOMAIN tbl

\* tuple(map(self._context_table.get, entry.context_ids)) - get() for every
\* id in order; the first KeyError or failing create() aborts the map and
\* leaves the instances created so far in the table.  An instance is the pair
\* <<context id, serial number of the create() call that made it>>.
RECURSIVE contexts_get(_, _, _, _, _, _)
contexts_get(ids, tbl, ord, lv, cr, acc) ==
    IF ids = <<>>
    THEN [ok |-> TRUE, table |-> tbl, order |-> ord, live |-> lv,
          created |-> cr, insts |-> acc]
    ELSE LET c == Head(ids) IN
         IF c \notin ContextDefIds
         THEN [ok |-> FALSE, table |-> tbl, order |-> ord, live |-> lv,
               created |-> cr, insts |-> acc]
         ELSE IF InstanceHit(c, tbl)
         THEN contexts_get(Tail(ids), tbl, ord, lv, cr,
                           Append(acc, <<c, tbl[c]>>))
         ELSE IF c \in CreateRaises
         THEN [ok |-> FALSE, table |-> tbl, order |-> ord, live |-> lv,
               created |-> cr, insts |-> acc]
         ELSE LET n == cr[c] + 1 IN
              contexts_get(Tail(ids), DictSet(tbl, c, n), OrderSet(ord, c),
                           lv \cup {<<c, n>>}, [cr EXCEPT ![c] = n],
                           Append(acc, <<c, n>>))

\* destroy_unused(active_context_ids): the instances not in active are
\* destroyed in table order.  destroy() of a context in DestroyMayRaise may
\* raise; the exception is not caught, so the instances after it (and the one
\* whose destroy raised) stay in the table.  The set of possible outcomes.
destroy_unused(active, tbl, ord, lv) ==
    LET unused == SelectSeq(ord, LAMBDA c : c \notin active)
        Ks == {k \in 0 .. Len(unused) :
                  k = Len(unused) \/ unused[k + 1] \in DestroyMayRaise}
        Gone(k) == {unused[i] : i \in 1 .. k}
    IN {[raised |-> k < Len(unused),
         table |-> [c \in (DOMAIN tbl) \ Gone(k) |-> tbl[c]],
         order |-> SelectSeq(ord, LAMBDA c : c \notin Gone(k)),
         live |-> lv \ {<<c, tbl[c]>> : c \in Gone(k)}] : k \in Ks}

\* ------------------------------------------------------------ WorkerProcess
\* _set_state: the StateChangeResult it puts, if any
set_state_results(new_state, t) ==
    IF state = new_state
    THEN <<>>
    ELSE <<[type |-> "STATE_CHANGE", state |-> state,
            time_elapsed_ns |-> t - last_state_change]>>

\* mutant: _set_state leaves _last_state_change as it was
set_state_time_kept(new_state, t) == last_state_change

\* _set_state, lines 166-175: the value of _last_state_change afterwards
set_state_time(new_state, t) ==
    IF state = new_state THEN last_state_change ELSE t

\* history: the time_elapsed_ns of the results _set_state puts, added up
RECURSIVE elapsed_sum(_)
elapsed_sum(results) ==
    IF results = <<>> THEN 0
    ELSE Head(results).time_elapsed_ns + elapsed_sum(Tail(results))

elapsed_after(new_state, t) ==
    elapsed_ns + elapsed_sum(set_state_results(new_state, t))

\* _cleanup_unused_context: union of context_ids over the entries
active_context_ids_of(entries) ==
    UNION {Range(entries[j].context_ids) : j \in DOMAIN entries}

\* _execute_admin_task(task): the possible outcomes on the worker's tables
execute_admin_task(task, t) ==
    LET same == [entries |-> job_entries, order |-> entry_order,
                 table |-> instance_table, torder |-> table_order,
                 live |-> live, exit |-> should_exit, crashed |-> FALSE]
    IN
    CASE task.type = "TERMINATE_WORKER" ->
           {[same EXCEPT !.table = d.table, !.torder = d.order,
                         !.live = d.live, !.exit = ~d.raised,
                         !.crashed = d.raised] :
              d \in destroy_unused({}, instance_table, table_order, live)}
      [] task.type = "QUEUE_DATA" ->
           IF task.job_id \notin DOMAIN job_entries
           THEN {[same EXCEPT !.crashed = TRUE]}
           ELSE {[same EXCEPT !.entries =
                    [job_entries EXCEPT ![task.job_id].buffer =
                        job_entries[task.job_id].buffer \o task.data]]}
      [] task.type = "DEREGISTER_JOB" ->
           IF task.job_id \notin DOMAIN job_entries
           THEN {[same EXCEPT !.crashed = TRUE]}
           ELSE {[same EXCEPT !.entries = DictDel(job_entries, task.job_id),
                              !.order = Remove(entry_order, task.job_id)]}
      [] task.type = "REGISTER_JOB" ->
           {[same EXCEPT
               !.entries = DictSet(job_entries, task.job_id,
                   [job_id |-> task.job_id,
                    state |-> "SLEEPING",
                    period_ms |-> task.period_ms,
                    period_start_ns |-> t + task.period_ms * NS_PER_MS,
                    context_ids |-> task.context_ids,
                    buffer |-> <<>>]),
               !.order = OrderSet(entry_order, task.job_id)]}

\* _scheduler_edf, line 313: the deadline of an entry, in nanoseconds
deadline_ns(entry) == entry.period_start_ns + entry.period_ms * NS_PER_MS

\* mutant: a READY entry with an equal deadline replaces the candidate
replaces_on_tie(earliest_deadline, deadline) == earliest_deadline >= deadline

\* _scheduler_edf, line 314: the candidate is replaced
replaces(earliest_deadline, deadline) == earliest_deadline > deadline

\* _scheduler_edf: scan in dict order, replace the candidate only by a
\* strictly earlier deadline
RECURSIVE edf_scan(_, _, _, _)
edf_scan(entries, order, earliest_job, earliest_deadline) ==
    IF order = <<>>
    THEN earliest_job
    ELSE LET entry == entries[Head(order)]
         IN IF entry.state /= "READY"
            THEN edf_scan(entries, Tail(order), earliest_job, earliest_deadline)
            ELSE IF earliest_deadline = NoTime
                    \/ replaces(earliest_deadline, deadline_ns(entry))
            THEN edf_scan(entries, Tail(order), entry.job_id,
                          deadline_ns(entry))
            ELSE edf_scan(entries, Tail(order), earliest_job, earliest_deadline)

\* mutant: the first READY entry in dict order is taken, whatever its deadline
scheduler_first_ready(entries, order) ==
    LET ready == SelectSeq(order, LAMBDA j : entries[j].state = "READY")
    IN IF ready = <<>> THEN NoJob ELSE Head(ready)

scheduler_edf(entries, order) == edf_scan(entries, order, NoJob, NoTime)

\* mutant: every entry that is not READY, ERRORED ones included, is woken up
mark_ready_errored_too(entries, curr_time) ==
    [j \in DOMAIN entries |->
        IF entries[j].state /= "READY" /\ entries[j].period_start_ns < curr_time
        THEN [entries[j] EXCEPT !.state = "READY"]
        ELSE entries[j]]

\* _scheduler, first loop: SLEEPING entries whose period started become READY
mark_ready(entries, curr_time) ==
    [j \in DOMAIN entries |->
        IF entries[j].state = "SLEEPING" /\ entries[j].period_start_ns < curr_time
        THEN [entries[j] EXCEPT !.state = "READY"]
        ELSE entries[j]]

Min(S) == CHOOSE x \in S : \A y \in S : x <= y

\* _scheduler, ready_time_ns: earliest period start over the entries that
\* were SLEEPING when the scheduler was entered
ready_time_ns(entries) ==
    LET S == {entries[j].period_start_ns :
                j \in {k \in DOMAIN entries : entries[k].state = "SLEEPING"}}
    IN IF S = {} THEN NoTime ELSE Min(S)

\* _execute_job, lines 302-303
RECURSIVE next_period_start(_, _, _)
next_period_start(period_start_ns, period_ms, curr_time) ==
    IF period_start_ns < curr_time
    THEN next_period_start(period_start_ns + period_ms * NS_PER_MS, period_ms,
                           curr_time)
    ELSE period_start_ns

\* ===================================================== main-process actions
\* mutant: deregister() forgets to drop the _queue_data callback
keep_queue_data(handles, job_id) == handles

\* JobHandle.deregister, lines 102-103: both callbacks are dropped
clear_queue_data(handles, job_id) == handles \ {job_id}

\* mutant: deregister() forgets to drop the _deregister callback
keep_deregister(handles, job_id) == handles

clear_deregister(handles, job_id) == handles \ {job_id}

\* mutant: the pump emits without looking the handle up
handle_registered_always(job_id) == TRUE

\* _poll_results, line 350: a result is emitted only for a registered handle
handle_registered(job_id) == job_id \in registered_job_handles

\* mutant: a job result that was handled stays at the head of the queue
queue_rest_keep(q) == IF Head(q).type = "JOB_EXECUTION" THEN q ELSE Tail(q)

\* _poll_results, line 341: Queue.get() removes the result it returns
queue_rest(q) == Tail(q)

\* WorkerProcessManager.register_job, lines 378-399
register_job(context_ids, period_ms) ==
    /\ next_job_id < MaxJobs
    /\ LET job_id == next_job_id IN
       /\ next_job_id' = next_job_id + 1
       /\ job_context_ids' = DictSet(job_context_ids, job_id, context_ids)
       /\ task_queue' = Append(task_queue,
              [type |-> "REGISTER_JOB", job_id |-> job_id,
               context_ids |-> context_ids, period_ms |-> period_ms])
       /\ registered_job_handles' = registered_job_handles \cup {job_id}
       /\ handle_queue_data' = handle_queue_data \cup {job_id}
       /\ handle_deregister' = handle_deregister \cup {job_id}
    /\ UNCHANGED <<poller_running, emitted, result_queue, wvars, hvars, now>>
    /\ UNCHANGED frozen1

\* JobHandle.queue_data(data) with a list of k fresh items
queue_data(job_id, k) ==
    /\ job_id < next_job_id
    /\ IF job_id \notin handle_queue_data
       THEN UNCHANGED vars
       ELSE /\ next_item + k <= MaxItems
            /\ LET data == [i \in 1 .. k |-> next_item + i - 1] IN
               /\ task_queue' = Append(task_queue,
                      [type |-> "QUEUE_DATA", job_id |-> job_id, data |-> data])
               /\ sent' = [sent EXCEPT ![job_id] = @ \o data]
            /\ next_item' = next_item + k
            /\ qd_after_dereg' = [qd_after_dereg EXCEPT ![job_id] =
                                     IF dereg_sent[job_id] > 0 THEN @ + 1 ELSE @]
            /\ UNCHANGED <<mvars, result_queue, wvars, dereg_sent, produced,
                           live, created, executing, elapsed_ns, now>>
    /\ UNCHANGED frozen1

\* JobHandle.deregister() and the _deregister closure (lines 93-103, 389-393)
deregister(job_id) ==
    /\ job_id < next_job_id
    /\ IF job_id \notin handle_deregister
       THEN UNCHANGED vars
       ELSE /\ task_queue' = Append(task_queue,
                   [type |-> "DEREGISTER_JOB", job_id |-> job_id])
            /\ registered_job_handles' = registered_job_handles \ {job_id}
            /\ job_context_ids' = DictDel(job_context_ids, job_id)
            /\ handle_queue_data' = clear_queue_data(handle_queue_data, job_id)
            /\ handle_deregister' = clear_deregister(handle_deregister, job_id)
            /\ dereg_sent' = [dereg_sent EXCEPT ![job_id] = @ + 1]
            /\ UNCHANGED <<next_job_id, poller_running, emitted, result_queue,
                           wvars, next_item, sent, qd_after_dereg, produced,
                           live, created, executing, elapsed_ns, now>>
    /\ UNCHANGED frozen1

\* _poll_results: one iteration of the pump on the head of the result queue.
\* LOGGING results are not modelled; the STATE_CHANGE branch feeds
\* _RollingUtilization, which Part I does not read.
poll_results ==
    /\ poller_running
    /\ result_queue /= <<>>
    /\ result_queue' = queue_rest(result_queue)
    /\ LET result == Head(result_queue) IN
       IF result.type = "JOB_EXECUTION" /\ handle_registered(result.job_id)
       THEN /\ emitted' = [emitted EXCEPT ![result.job_id] = Append(@, result.n)]
            /\ IF result.has_exception /\ result.job_id \in handle_deregister
               THEN /\ task_queue' = Append(task_queue,
                          [type |-> "DEREGISTER_JOB", job_id |-> result.job_id])
                    /\ registered_job_handles' =
                          registered_job_handles \ {result.job_id}
                    /\ job_context_ids' = DictDel(job_context_ids, result.job_id)
                    /\ handle_queue_data' =
                          clear_queue_data(handle_queue_data, result.job_id)
                    /\ handle_deregister' =
                          clear_deregister(handle_deregister, result.job_id)
                    /\ dereg_sent' = [dereg_sent EXCEPT ![result.job_id] = @ + 1]
               ELSE UNCHANGED <<task_queue, registered_job_handles,
                                job_context_ids, handle_queue_data,
                                handle_deregister, dereg_sent>>
       ELSE UNCHANGED <<emitted, task_queue, registered_job_handles,
                        job_context_ids, handle_queue_data, handle_deregister,
                        dereg_sent>>
    /\ UNCHANGED <<next_job_id, poller_running, wvars, next_item, sent,
                   qd_after_dereg, produced, live, created, executing, elapsed_ns, now>>
    /\ UNCHANGED frozen1

\* send_terminate: cancels the pump, then puts TERMINATE_WORKER
send_terminate ==
    /\ poller_running
    /\ poller_running' = FALSE
    /\ task_queue' = Append(task_queue, [type |-> "TERMINATE_WORKER"])
    /\ UNCHANGED <<next_job_id, registered_job_handles, job_context_ids,
                   handle_queue_data, handle_deregister, emitted, result_queue,
                   wvars, hvars, now>>
    /\ UNCHANGED frozen1

\* time.perf_counter_ns() advances
Tick ==
    /\ now < MaxTimeMs * NS_PER_MS
    /\ now' = now + NS_PER_MS
    /\ UNCHANGED <<mvars, qvars, wvars, hvars>>
    /\ UNCHANGED frozen1

\* ==================================================== worker-process actions
\* The result queue is unbounded; the model lets the worker run ahead of a
\* running pump by at most MaxResults results.
result_room(k) == ~poller_running \/ Len(result_queue) + k <= MaxResults

\* pc: "admin"  - inside the drain loop of execution_loop (lines 374-382)
\*     "exec"   - _execute_job(cur_job) was entered (line 393)
\*     "idle"   - blocked in the task queue get of line 400
\*     "exited" - execution_loop returned (line 376)
\*     "crashed"- an exception left execution_loop

\* mutant: the worker enters _execute_job without leaving ADMIN
state_for_execution_unchanged == "ADMIN"

\* the worker state a job is executed in (line 392)
state_for_execution == "BUSY"

\* mutant: the task the blocking get returned is dropped
idle_task_dropped(task, t) ==
    {[entries |-> job_entries, order |-> entry_order, table |-> instance_table,
      torder |-> table_order, live |-> live, exit |-> should_exit,
      crashed |-> FALSE]}

\* the admin task the blocking get of line 400 returned is applied (line 405)
idle_task_outcomes(task, t) == execute_admin_task(task, t)

apply_admin_outcome(o) ==
    /\ job_entries' = o.entries
    /\ entry_order' = o.order
    /\ instance_table' = o.table
    /\ table_order' = o.torder
    /\ live' = o.live
    /\ should_exit' = o.exit
    /\ pc' = IF o.crashed THEN "crashed" ELSE "admin"

\* lines 375-376
W_exit ==
    /\ pc = "admin"
    /\ should_exit
    /\ pc' = "exited"
    /\ UNCHANGED <<mvars, qvars, state, last_state_change, job_entries,
                   entry_order, instance_table, table_order, should_exit,
                   cur_job, sched_time, idle_until, hvars, now>>
    /\ UNCHANGED frozen1

\* lines 378-382: the non-blocking get returned a task
W_admin_task ==
    /\ pc = "admin"
    /\ ~should_exit
    /\ task_queue /= <<>>
    /\ task_queue' = Tail(task_queue)
    /\ \E o \in execute_admin_task(Head(task_queue), now) : apply_admin_outcome(o)
    /\ UNCHANGED <<mvars, result_queue, state, last_state_change, cur_job,
                   sched_time, idle_until, next_item, sent, dereg_sent,
                   qd_after_dereg, produced, created, executing, elapsed_ns,
                   now>>
    /\ UNCHANGED frozen1

\* lines 379-380, 385-396: the queue is empty; clean up, schedule, then
\* either enter _execute_job or start idling
W_schedule ==
    /\ pc = "admin"
    /\ ~should_exit
    /\ task_queue = <<>>
    /\ result_room(1)
    /\ \E d \in destroy_unused(active_context_ids_of(job_entries),
                               instance_table, table_order, live) :
         /\ instance_table' = d.table
         /\ table_order' = d.order
         /\ live' = d.live
         /\ IF d.raised
            THEN /\ pc' = "crashed"
                 /\ UNCHANGED <<result_queue, state, last_state_change,
                                job_entries, cur_job, sched_time, idle_until,
                                executing, elapsed_ns>>
            ELSE LET marked == mark_ready(job_entries, now)
                     job_id == scheduler_edf(marked, entry_order)
                     next_state == IF job_id /= NoJob
                                   THEN state_for_execution ELSE "IDLE"
                 IN /\ job_entries' = marked
                    /\ sched_time' = now
                    /\ result_queue' =
                          result_queue \o set_state_results(next_state, now)
                    /\ last_state_change' = set_state_time(next_state, now)
                    /\ elapsed_ns' = elapsed_after(next_state, now)
                    /\ state' = next_state
                    /\ cur_job' = job_id
                    /\ pc' = IF job_id /= NoJob THEN "exec" ELSE "idle"
                    /\ idle_until' = IF job_id /= NoJob
                                     THEN NoTime ELSE ready_time_ns(job_entries)
                    /\ executing' = IF job_id /= NoJob
                                    THEN executing \cup {job_id} ELSE executing
    /\ UNCHANGED <<mvars, task_queue, entry_order, should_exit, next_item,
                   sent, dereg_sent, qd_after_dereg, produced, created, now>>
    /\ UNCHANGED frozen1

\* _execute_job(cur_job), lines 236-303, then _set_state(ADMIN) of line 371
W_execute_job ==
    /\ pc = "exec"
    /\ result_room(2)
    /\ LET entry == job_entries[cur_job]
           g == contexts_get(entry.context_ids, instance_table, table_order,
                             live, created, <<>>)
       IN \E raises \in (IF g.ok THEN BOOLEAN ELSE {FALSE}) :
          LET ok == g.ok /\ ~raises
              batch == IF g.ok THEN entry.buffer ELSE <<>>
              new_entry ==
                  IF ~g.ok THEN [entry EXCEPT !.state = "ERRORED"]
                  ELSE IF raises
                  THEN [entry EXCEPT !.buffer = <<>>, !.state = "ERRORED"]
                  ELSE [entry EXCEPT !.buffer = <<>>, !.state = "SLEEPING",
                           !.period_start_ns = next_period_start(
                               entry.period_start_ns, entry.period_ms, now)]
              n == Len(produced[cur_job]) + 1
          IN /\ instance_table' = g.table
             /\ table_order' = g.order
             /\ live' = g.live
             /\ created' = g.created
             /\ job_entries' = [job_entries EXCEPT ![cur_job] = new_entry]
             /\ produced' = [produced EXCEPT ![cur_job] = Append(@,
                    [ok |-> ok, pb |-> g.ok, batch |-> batch,
                     insts |-> Range(g.insts),
                     left |-> Len(new_entry.buffer)])]
             /\ result_queue' = result_queue \o
                    <<[type |-> "JOB_EXECUTION", job_id |-> cur_job, n |-> n,
                       has_exception |-> ~ok]>> \o
                    set_state_results("ADMIN", now)
    /\ last_state_change' = set_state_time("ADMIN", now)
    /\ elapsed_ns' = elapsed_after("ADMIN", now)
    /\ state' = "ADMIN"
    /\ pc' = "admin"
    /\ cur_job' = NoJob
    /\ executing' = executing \ {cur_job}
    /\ UNCHANGED <<mvars, task_queue, entry_order, should_exit, sched_time,
                   idle_until, next_item, sent, dereg_sent, qd_after_dereg,
                   now>>
    /\ UNCHANGED frozen1

\* lines 400-405: the blocking get returned a task
W_idle_task ==
    /\ pc = "idle"
    /\ task_queue /= <<>>
    /\ result_room(1)
    /\ task_queue' = Tail(task_queue)
    /\ result_queue' = result_queue \o set_state_results("ADMIN", now)
    /\ last_state_change' = set_state_time("ADMIN", now)
    /\ elapsed_ns' = elapsed_after("ADMIN", now)
    /\ state' = "ADMIN"
    /\ \E o \in idle_task_outcomes(Head(task_queue), now) : apply_admin_outcome(o)
    /\ idle_until' = NoTime
    /\ UNCHANGED <<mvars, cur_job, sched_time, next_item, sent, dereg_sent,
                   qd_after_dereg, produced, created, executing, now>>
    /\ UNCHANGED frozen1

\* lines 400-403, 371: the blocking get timed out.  The timeout is taken
\* once the clock has passed the wake-up time.
W_idle_timeout ==
    /\ pc = "idle"
    /\ task_queue = <<>>
    /\ idle_until /= NoTime
    /\ now > idle_until
    /\ result_room(1)
    /\ result_queue' = result_queue \o set_state_results("ADMIN", now)
    /\ last_state_change' = set_state_time("ADMIN", now)
    /\ elapsed_ns' = elapsed_after("ADMIN", now)
    /\ state' = "ADMIN"
    /\ pc' = "admin"
    /\ idle_until' = NoTime
    /\ UNCHANGED <<mvars, task_queue, job_entries, entry_order, instance_table,
                   table_order, should_exit, cur_job, sched_time, next_item,
                   sent, dereg_sent, qd_after_dereg, produced, live, created,
                   executing, now>>
    /\ UNCHANGED frozen1

\* ================================================================== Part II
\* WorkerPool (worker_pool.py) over the WorkerProcessManagers it constructs.
\* A Python value that may be None, an int or a tuple of ints is the record
\* [kind, val] with val a sequence, so that an int and a tuple compare as
\* unequal, the way Python compares them.
PyNone == [kind |-> "none", val |-> <<>>]
PyInt(n) == [kind |-> "int", val |-> <<n>>]
PyTuple(t) == [kind |-> "tuple", val |-> t]

\* Python None for negative_affinity and for a process id
NoTag == "None"
NoProc == -1

\* num_workers
PoolWorkers == 3
Procs == 0 .. (PoolWorkers - 1)

\* context_def handed to the pool; creation_cost in tenths
PoolContextDef ==
    (0 :> [max_instances |-> 1, tags |-> {"a", "any"},
           negative_affinity |-> NoTag, creation_cost |-> 0]) @@
    (1 :> [max_instances |-> -1, tags |-> {"log", "any", "heavy"},
           negative_affinity |-> NoTag, creation_cost |-> 1]) @@
    (2 :> [max_instances |-> 2, tags |-> {"slow", "any", "heavy"},
           negative_affinity |-> "log", creation_cost |-> 1]) @@
    (3 :> [max_instances |-> -1, tags |-> {"solo"},
           negative_affinity |-> "solo", creation_cost |-> 0])

\* the context_tags arguments the callers pass
TagTuples ==
    {<<>>, <<"a">>, <<"log">>, <<"slow">>, <<"solo">>, <<"any">>,
     <<"missing">>, <<"a", "log">>, <<"slow", "log">>, <<"any", "any">>,
     <<"a", "missing">>, <<"a", "a">>, <<"heavy">>}

\* iteration order of a set of small ints: ascending
RECURSIVE SetToSeq(_)
SetToSeq(S) ==
    IF S = {} THEN <<>>
    ELSE LET x == CHOOSE y \in S : \A z \in S : y <= z
         IN <<x>> \o SetToSeq(S \ {x})

\* itertools.product(*matched_contexts): the tuples in lexicographic order
RECURSIVE product(_)
product(matched) ==
    IF matched = <<>> THEN <<<<>>>>
    ELSE LET heads == SetToSeq(Head(matched))
             rest == product(Tail(matched))
         IN Flatten([i \in 1 .. Len(heads) |->
                        [k \in 1 .. Len(rest) |-> <<heads[i]>> \o rest[k]]])

\* WorkerPool.get_context_ids_by_tag
get_context_ids_by_tag(tag) ==
    {c \in DOMAIN PoolContextDef : tag \in PoolContextDef[c].tags}

\* WorkerProcessManager.active_context_ids: set(self._job_context_ids.values())
active_context_ids(jobs) == {jobs[j] : j \in DOMAIN jobs}

\* `context_id in process.active_context_ids` for an int context_id
is_active(context_id, process_id) ==
    PyInt(context_id) \in active_context_ids(p_job_context_ids[process_id])

\* `x in self._context_def` for a dict keyed by int
is_context_key(x) == x.kind = "int" /\ x.val[1] \in DOMAIN PoolContextDef

\* _get_min_utilization: strict '>' keeps the first process of least utilization
RECURSIVE min_utilization_scan(_, _, _)
min_utilization_scan(process_id, min_util, min_util_process) ==
    IF process_id = PoolWorkers THEN min_util_process
    ELSE IF min_util_process = NoProc \/ min_util > p_utilization[process_id]
    THEN min_utilization_scan(process_id + 1, p_utilization[process_id],
                              process_id)
    ELSE min_utilization_scan(process_id + 1, min_util, min_util_process)

get_min_utilization == min_utilization_scan(0, 0, NoProc)

\* _context_max_active_reached
context_max_active_reached(context_id) ==
    LET max_instances == PoolContextDef[context_id].max_instances
    IN IF max_instances = -1 THEN FALSE
       ELSE Cardinality({q \in Procs : is_active(context_id, q)})
               >= max_instances

\* _context_ids_are_compatible, line 180: `other_id != context_ids` compares
\* an element with the whole tuple
is_other_id(other_id, context_ids) == PyInt(other_id) /= PyTuple(context_ids)

context_ids_are_compatible(context_ids) ==
    \A i \in 1 .. Len(context_ids) :
        LET other_tags ==
                UNION {PoolContextDef[context_ids[k]].tags :
                         k \in {m \in 1 .. Len(context_ids) :
                                   is_other_id(context_ids[m], context_ids)}}
        IN PoolContextDef[context_ids[i]].negative_affinity \notin other_tags

\* _has_negative_affinity: [raised, value]; self._context_def[active_id]
\* raises KeyError for an active id that is neither None nor a key
has_negative_affinity(context_id, process_id) ==
    LET active == active_context_ids(p_job_context_ids[process_id])
        keys == {a.val[1] : a \in {b \in active : is_context_key(b)}}
        active_context_tags == UNION {PoolContextDef[k].tags : k \in keys}
        active_negative_affinity ==
            {PoolContextDef[k].negative_affinity : k \in keys} \ {NoTag}
    IN [raised |-> \E a \in active : a.kind /= "none" /\ ~is_context_key(a),
        value |-> \/ PoolContextDef[context_id].negative_affinity
                        \in active_context_tags
                  \/ PoolContextDef[context_id].tags
                        \cap active_negative_affinity /= {}]

\* _assignment_is_valid: [raised, value]
assignment_is_valid(context_ids, process_id) ==
    [raised |-> context_ids /= <<>>
                /\ has_negative_affinity(context_ids[1], process_id).raised,
     value |-> \A i \in 1 .. Len(context_ids) :
                  /\ ~has_negative_affinity(context_ids[i], process_id).value
                  /\ ~(/\ context_max_active_reached(context_ids[i])
                       /\ ~is_active(context_ids[i], process_id))]

\* _get_potential_assignments: [raised, list]; the list holds
\* <<process_id, context_ids>> in the order the loops append them
get_potential_assignments(matched_contexts) ==
    LET compatible == SelectSeq(product(matched_contexts),
                                context_ids_are_compatible)
        valid_on(context_ids) ==
            SelectSeq([i \in 1 .. PoolWorkers |-> <<i - 1, context_ids>>],
                LAMBDA a : assignment_is_valid(context_ids, a[1]).value)
    IN [raised |-> \E i \in 1 .. Len(compatible) : \E q \in Procs :
                      assignment_is_valid(compatible[i], q).raised,
        list |-> Flatten([i \in 1 .. Len(compatible) |->
                             valid_on(compatible[i])])]

\* _assign_process, lines 309-316: cost of the contexts to create, counting
\* each distinct id once
creation_cost(process_id, context_ids) ==
    LET new_ids == {c \in Range(context_ids) : ~is_active(c, process_id)}
        RECURSIVE sum(_)
        sum(S) == IF S = {} THEN 0
                  ELSE LET c == CHOOSE x \in S : TRUE
                       IN PoolContextDef[c].creation_cost + sum(S \ {c})
    IN sum(new_ids)

\* _assign_process, lines 318-321, in tenths
score(process_id, context_ids) ==
    10 - p_utilization[process_id] - creation_cost(process_id, context_ids)

\* mutant: an assignment of equal score replaces the best one
improves_on_tie(sc, best_score) == sc >= best_score

\* _assign_process, line 323: the assignment replaces the best one
improves(sc, best_score) == sc > best_score

\* _assign_process, lines 303-325: strict '>' keeps the first best assignment
RECURSIVE best_scan(_, _, _)
best_scan(assignments, best_score, best_assignment) ==
    IF assignments = <<>> THEN best_assignment
    ELSE LET a == Head(assignments)
             sc == score(a[1], a[2])
         IN IF best_assignment = <<>> \/ improves(sc, best_score)
            THEN best_scan(Tail(assignments), sc, a)
            ELSE best_scan(Tail(assignments), best_score, best_assignment)

\* mutant: the check for a tag without context definitions is skipped
has_unmatched_tag_skipped(matched_contexts) == FALSE

\* lines 297-301: some tag matched no context definition
has_unmatched_tag(matched_contexts) ==
    \E i \in 1 .. Len(matched_contexts) : matched_contexts[i] = {}

\* _assign_process: [outcome, process, context_ids]
assign_process(context_tags) ==
    LET none == [outcome |-> "none", process |-> NoProc, context_ids |-> <<>>]
        matched_contexts == [i \in 1 .. Len(context_tags) |->
                                get_context_ids_by_tag(context_tags[i])]
        potential == get_potential_assignments(matched_contexts)
        best == best_scan(potential.list, 0, <<>>)
    IN IF Len(context_tags) = 0
       THEN [none EXCEPT !.outcome = "ok", !.process = get_min_utilization]
       ELSE IF has_unmatched_tag(matched_contexts)
       THEN [none EXCEPT !.outcome = "KeyError: tag matched 0 definitions"]
       ELSE IF potential.raised
       THEN [none EXCEPT !.outcome = "KeyError: active id"]
       ELSE IF best = <<>>
       THEN [none EXCEPT !.outcome = "RuntimeError: no valid assignment"]
       ELSE [outcome |-> "ok", process |-> best[1], context_ids |-> best[2]]

\* WorkerProcessManager.register_job, lines 375-376
invalid_context_id(context_id) ==
    context_id /= PyNone /\ ~is_context_key(context_id)

\* WorkerPool.register_job: _assign_process, then register_job of the chosen
\* manager with the tuple as its context_id argument
PoolRegisterJob(context_tags) ==
    LET a == assign_process(context_tags)
        process_id == a.process
        context_id == PyTuple(a.context_ids)
        job_id == p_next_job_id[process_id]
        call == [tags |-> context_tags, outcome |-> a.outcome,
                 process |-> a.process, context_ids |-> a.context_ids]
    IN /\ IF a.outcome /= "ok"
          THEN /\ p_call' = call
               /\ UNCHANGED <<p_next_job_id, p_job_context_ids, p_registered>>
          ELSE IF invalid_context_id(context_id)
          THEN /\ p_call' = [call EXCEPT !.outcome = "KeyError: Invalid Context Id"]
               /\ UNCHANGED <<p_next_job_id, p_job_context_ids, p_registered>>
          ELSE /\ p_call' = call
               /\ p_next_job_id' = [p_next_job_id EXCEPT ![process_id] = @ + 1]
               /\ p_job_context_ids' = [p_job_context_ids EXCEPT ![process_id] =
                                           DictSet(@, job_id, context_id)]
               /\ p_registered' = [p_registered EXCEPT ![process_id] =
                                      @ \cup {job_id}]
       /\ p_outcomes' = p_outcomes \cup {p_call'.outcome}
       /\ UNCHANGED p_utilization
       /\ UNCHANGED frozen2

\* _poll_results of manager process_id handles the StateChangeResult the
\* worker put when it left ADMIN for IDLE after start-up: the window then holds
\* ADMIN time only and utilization is 1
PoolStateChange(process_id) ==
    /\ p_utilization[process_id] = 0
    /\ p_utilization' = [p_utilization EXCEPT ![process_id] = 10]
    /\ UNCHANGED <<p_next_job_id, p_job_context_ids, p_registered, p_call,
                   p_outcomes>>
    /\ UNCHANGED frozen2

InitPool ==
    /\ p_utilization = [q \in Procs |-> 0]
    /\ p_next_job_id = [q \in Procs |-> 0]
    /\ p_job_context_ids = [q \in Procs |-> <<>>]
    /\ p_registered = [q \in Procs |-> {}]
    /\ p_call = [tags |-> <<>>, outcome |-> "none", process |-> NoProc,
                 context_ids |-> <<>>]
    /\ p_outcomes = {}

\* ================================================================= Part III
\* _RollingUtilization (worker_process_manager.py:106-175).  The durations
\* and the window are small numbers of nanoseconds.
MaxIncrements == 4
MaxDuration == 3
NoWindow == -1

\* rolling_window_ns values the constructor is given
Windows == {0, 2, 3}

WorkerStates == {"ADMIN", "IDLE", "BUSY"}

\* mutant: removing an old increment leaves the per-state counters as they are
counters_add_forgets_removal(c, st, increment_ns) ==
    IF increment_ns < 0
    THEN [c EXCEPT !.total = @ + increment_ns]
    ELSE [total |-> c.total + increment_ns,
          admin |-> c.admin + (IF st = "ADMIN" THEN increment_ns ELSE 0),
          idle |-> c.idle + (IF st = "IDLE" THEN increment_ns ELSE 0),
          busy |-> c.busy + (IF st = "BUSY" THEN increment_ns ELSE 0)]

\* _increment
counters_add(c, st, increment_ns) ==
    [total |-> c.total + increment_ns,
     admin |-> c.admin + (IF st = "ADMIN" THEN increment_ns ELSE 0),
     idle |-> c.idle + (IF st = "IDLE" THEN increment_ns ELSE 0),
     busy |-> c.busy + (IF st = "BUSY" THEN increment_ns ELSE 0)]

\* mutant: the loop stops only once the total itself is below the window
window_reached_late(total_time_ns, oldest_increment_ns, window) ==
    total_time_ns < window

\* increment, lines 149-153: removing the oldest increment would leave less
\* than the window
window_reached(total_time_ns, oldest_increment_ns, window) ==
    total_time_ns - oldest_increment_ns < window

\* increment, lines 149-158: the loop that shrinks the window; oldest is
\* self._increments[0] as read before the pop.  self._increments[0] on the
\* emptied deque raises IndexError.
RECURSIVE shrink_window(_, _, _, _)
shrink_window(incs, c, oldest, window) ==
    IF Len(incs) = 0
    THEN [increments |-> incs, counters |-> c, raised |-> FALSE]
    ELSE IF window_reached(c.total, oldest[2], window)
    THEN [increments |-> incs, counters |-> c, raised |-> FALSE]
    ELSE LET popped == Tail(incs)
             c2 == counters_add(c, oldest[1], -1 * oldest[2])
         IN IF popped = <<>>
            THEN [increments |-> popped, counters |-> c2, raised |-> TRUE]
            ELSE shrink_window(popped, c2, popped[1], window)

\* the utilization property as the fraction <<numerator, denominator>>
utilization(c) ==
    IF c.total = 0 THEN <<0, 1>> ELSE <<c.total - c.idle, c.total>>

\* _RollingUtilization.__init__
UtilInit(rolling_window_ns) ==
    /\ u_window = NoWindow
    /\ u_window' = rolling_window_ns
    /\ UNCHANGED <<u_counters, u_increments, u_calls, u_call>>
    /\ UNCHANGED frozen3

\* _RollingUtilization.increment
increment(st, increment_ns) ==
    /\ u_window /= NoWindow
    /\ u_calls < MaxIncrements
    /\ LET incs == Append(u_increments, <<st, increment_ns>>)
           c == counters_add(u_counters, st, increment_ns)
           r == shrink_window(incs, c, incs[1], u_window)
       IN /\ u_increments' = r.increments
          /\ u_counters' = r.counters
          /\ u_call' = [state |-> st, increment_ns |-> increment_ns,
                        raised |-> r.raised]
    /\ u_calls' = u_calls + 1
    /\ UNCHANGED u_window
    /\ UNCHANGED frozen3

InitUtil ==
    /\ u_window = NoWindow
    /\ u_counters = [total |-> 0, admin |-> 0, idle |-> 0, busy |-> 0]
    /\ u_increments = <<>>
    /\ u_calls = 0
    /\ u_call = [state |-> "ADMIN", increment_ns |-> 0, raised |-> FALSE]

\* ================================================================== Part IV
\* NPCircularBuffer (np_circular_buffer.py).  Samples are fresh integers.
MaxSamples == 5
MaxChunk == 3
MaxPurge == 4
MaxUnderflow == 6
NoSize == -1

\* max_size values the constructor is given
BufferSizes == {2, 3}

\* a cell np.empty allocated and nothing has written
Junk == -1

\* Python slice bounds for a sequence of length n: a negative bound counts
\* from the end, both are clipped to 0 .. n
slice_bound(n, x) ==
    IF x < 0 THEN (IF x + n < 0 THEN 0 ELSE x + n)
    ELSE (IF x > n THEN n ELSE x)

\* a[start:stop], indices from 0
py_slice(a, start, stop) ==
    LET lo == slice_bound(Len(a), start)
        hi == slice_bound(Len(a), stop)
    IN IF hi <= lo THEN <<>> ELSE SubSeq(a, lo + 1, hi)

\* a[start:stop] = values for numpy arrays: [raised, array]; the shapes must
\* agree, a value of one element is broadcast
slice_assign(a, start, stop, values) ==
    LET lo == slice_bound(Len(a), start)
        hi == slice_bound(Len(a), stop)
        n == IF hi <= lo THEN 0 ELSE hi - lo
    IN IF Len(values) = n
       THEN [raised |-> FALSE,
             array |-> [i \in 1 .. Len(a) |->
                          IF lo < i /\ i <= lo + n THEN values[i - lo]
                          ELSE a[i]]]
       ELSE IF Len(values) = 1
       THEN [raised |-> FALSE,
             array |-> [i \in 1 .. Len(a) |->
                          IF lo < i /\ i <= lo + n THEN values[1] ELSE a[i]]]
       ELSE [raised |-> TRUE, array |-> a]

\* NPCircularBuffer.get
buffer_get == py_slice(b_buffer, 0, b_curr_size)

\* NPCircularBuffer.__init__
BufferInit(max_size) ==
    /\ b_max_size = NoSize
    /\ b_max_size' = max_size
    /\ b_curr_size' = 0
    /\ b_buffer' = [i \in 1 .. max_size |-> Junk]
    /\ UNCHANGED <<b_next, b_admitted, b_offset, b_call>>
    /\ UNCHANGED frozen4

\* NPCircularBuffer.append(sequence) with a sequence of n fresh samples
append(n) ==
    /\ b_max_size /= NoSize
    /\ b_next + n <= MaxSamples
    /\ LET sequence == [i \in 1 .. n |-> b_next + i - 1]
           num_elements_to_append == Len(sequence)
           space_available == b_max_size - b_curr_size
           fits == slice_assign(b_buffer, b_curr_size,
                                b_curr_size + num_elements_to_append, sequence)
           fills == IF space_available > 0
                    THEN slice_assign(b_buffer, b_curr_size, Len(b_buffer),
                                      py_slice(sequence, 0, space_available))
                    ELSE [raised |-> FALSE, array |-> b_buffer]
           r == IF num_elements_to_append <= space_available
                THEN fits ELSE fills
           stored == IF r.raised THEN <<>>
                     ELSE IF num_elements_to_append <= space_available
                     THEN sequence
                     ELSE py_slice(sequence, 0, space_available)
       IN /\ b_buffer' = r.array
          /\ b_curr_size' =
                IF r.raised THEN b_curr_size
                ELSE IF num_elements_to_append <= space_available
                THEN b_curr_size + num_elements_to_append
                ELSE b_max_size
          /\ b_admitted' = b_admitted \o stored
          /\ b_call' = [op |-> "append", n |-> n, raised |-> r.raised,
                        len |-> b_curr_size,
                        returned |-> IF r.raised THEN <<>>
                                     ELSE SubSeq(sequence, Len(stored) + 1, n)]
    /\ b_next' = b_next + n
    /\ UNCHANGED <<b_max_size, b_offset>>
    /\ UNCHANGED frozen4

\* NPCircularBuffer.purge(amount)
purge(n) ==
    /\ b_max_size /= NoSize
    /\ b_curr_size - n >= -MaxUnderflow
    /\ LET amount == IF b_max_size < n THEN b_max_size ELSE n
           r == slice_assign(b_buffer, 0, b_curr_size - amount,
                             py_slice(b_buffer, amount, b_curr_size))
       IN /\ b_buffer' = r.array
          /\ b_curr_size' = IF r.raised THEN b_curr_size
                            ELSE b_curr_size - amount
          /\ b_call' = [op |-> "purge", n |-> n, raised |-> r.raised,
                        len |-> b_curr_size, returned |-> <<>>]
    /\ b_offset' = b_offset + (b_curr_size - b_curr_size')
    /\ UNCHANGED <<b_max_size, b_next, b_admitted>>
    /\ UNCHANGED frozen4

InitBuffer ==
    /\ b_max_size = NoSize
    /\ b_curr_size = 0
    /\ b_buffer = <<>>
    /\ b_next = 0
    /\ b_admitted = <<>>
    /\ b_offset = 0
    /\ b_call = [op |-> "none", n |-> 0, raised |-> FALSE, len |-> 0,
                 returned |-> <<>>]

\* =================================================================== Part V
\* LocalAgree (local_agree.py).  A text is its sequence of characters, a
\* time is a whole number of seconds.
MaxAppends == 2
MaxSegments == 2
MaxSec == 1
NoDim == -1

\* local_agree_dim values the constructor is given
LocalAgreeDims == {1, 2}

SENTENCE_ENDS == {<<".">>, <<"?">>, <<"!">>}
SENTENCE_ENDS_WHITELIST == <<".", ".", ".">>

\* str.endswith
endswith(text, suffix) ==
    /\ Len(suffix) <= Len(text)
    /\ SubSeq(text, Len(text) - Len(suffix) + 1, Len(text)) = suffix

\* _is_sentence_end, without the whitelist
is_sentence_end_ignores_whitelist(segment) ==
    \E e \in SENTENCE_ENDS : endswith(segment.text, e)

\* _is_sentence_end
is_sentence_end(segment) ==
    IF ~(\E e \in SENTENCE_ENDS : endswith(segment.text, e)) THEN FALSE
    ELSE IF endswith(segment.text, SENTENCE_ENDS_WHITELIST) THEN FALSE
    ELSE TRUE

\* TranscriptionSegment
TranscriptionSegment(text, start, end) ==
    [text |-> text, start |-> start, end |-> end]

\* what a method returns when it returns None
NoSequence == [none |-> TRUE, text |-> <<>>, starts |-> <<>>, ends |-> <<>>]

\* _segments_to_sequence
segments_to_sequence(segments) ==
    [none |-> FALSE,
     text |-> [i \in 1 .. Len(segments) |-> segments[i].text],
     starts |-> [i \in 1 .. Len(segments) |-> segments[i].start],
     ends |-> [i \in 1 .. Len(segments) |-> segments[i].end]]

\* what the methods return: None for no segments
sequence_or_none(segments) ==
    IF Len(segments) = 0 THEN NoSequence ELSE segments_to_sequence(segments)

\* the leading segments a loop `while q[0].start < t: q.popleft()` pops
RECURSIVE popped_before(_, _)
popped_before(q, t) ==
    IF q = <<>> \/ Head(q).start >= t THEN <<>>
    ELSE <<Head(q)>> \o popped_before(Tail(q), t)

\* a loop that pops the head whether or not it starts before t
left_from_pops_head(q, t) ==
    IF q = <<>> THEN q ELSE Tail(q)

\* what that loop leaves in q
left_from(q, t) ==
    SubSeq(q, Len(popped_before(q, t)) + 1, Len(q))

\* append_transcription without the removal of already committed segments
new_segments_untrimmed(segments, commited_time) == segments

\* append_transcription: the segments admitted to the history
new_segments(segments, commited_time) == left_from(segments, commited_time)

\* _next_commit_segment: [raised, none, segment]; the comparison reads the
\* head of the newest hypothesis, an IndexError when that one is empty
RECURSIVE next_commit_scan(_, _, _)
next_commit_scan(ips, dim, local_agree_dim) ==
    IF dim > local_agree_dim
    THEN [raised |-> FALSE, none |-> FALSE, segment |-> Head(ips[Len(ips)])]
    ELSE IF Len(ips[dim]) = 0
    THEN [raised |-> FALSE, none |-> TRUE, segment |-> <<>>]
    ELSE IF Len(ips[Len(ips)]) = 0
    THEN [raised |-> TRUE, none |-> TRUE, segment |-> <<>>]
    ELSE IF Head(ips[dim]).text /= Head(ips[Len(ips)]).text
    THEN [raised |-> FALSE, none |-> TRUE, segment |-> <<>>]
    ELSE next_commit_scan(ips, dim + 1, local_agree_dim)

next_commit_segment(ips, local_agree_dim) ==
    next_commit_scan(ips, 1, local_agree_dim)

\* the commit step of append_transcription, taken once
commit_step(st, local_agree_dim) ==
    LET n == next_commit_segment(st.ips, local_agree_dim)
    IN IF n.none THEN [st EXCEPT !.raised = n.raised, !.done = TRUE]
       ELSE [ips |-> [dim \in 1 .. Len(st.ips) |->
                        IF dim <= local_agree_dim THEN Tail(st.ips[dim])
                        ELSE st.ips[dim]],
             commited |-> Append(st.commited, n.segment),
             commited_time |-> n.segment.end,
             added |-> Append(st.added, n.segment),
             raised |-> FALSE,
             done |-> FALSE]

\* the commit loop of append_transcription
RECURSIVE commit_loop(_, _)
commit_loop(st, local_agree_dim) ==
    IF st.done THEN st
    ELSE commit_loop(commit_step(st, local_agree_dim), local_agree_dim)

\* append_transcription with `if` for `while`: at most one segment commits
commit_once(st, local_agree_dim) ==
    IF st.done THEN st
    ELSE [commit_step(st, local_agree_dim) EXCEPT !.done = TRUE]

\* append_transcription: every segment that can be committed
commit_all(st, local_agree_dim) ==
    commit_loop(st, local_agree_dim)

\* the history the code keeps: only the last n entries
keep_last(h, n) ==
    IF Len(h) > n THEN Tail(h) ELSE h

\* LocalAgree.__init__
AgreeInit(local_agree_dim) ==
    /\ l_local_agree_dim = NoDim
    /\ local_agree_dim >= 1
    /\ l_local_agree_dim' = local_agree_dim
    /\ l_commited_segments' = <<>>
    /\ l_in_progress_segments' = <<>>
    /\ l_commited_time' = 0
    /\ UNCHANGED <<l_appends, l_recent, l_settled, l_last_commit, l_call>>
    /\ UNCHANGED frozen5

\* LocalAgree.append_transcription
append_transcription(segments) ==
    /\ l_local_agree_dim /= NoDim
    /\ l_appends < MaxAppends
    /\ l_appends' = l_appends + 1
    /\ l_recent' = keep_last(Append(l_recent, segments), l_local_agree_dim)
    /\ LET history == keep_last(
               Append(l_in_progress_segments,
                      new_segments(segments, l_commited_time)),
               l_local_agree_dim)
           start == [ips |-> history,
                     commited |-> l_commited_segments,
                     commited_time |-> l_commited_time,
                     added |-> <<>>,
                     raised |-> FALSE,
                     done |-> Len(history) < l_local_agree_dim]
           st == commit_all(start, l_local_agree_dim)
       IN /\ l_in_progress_segments' = st.ips
          /\ l_commited_segments' = st.commited
          /\ l_commited_time' = st.commited_time
          /\ l_settled' = l_settled \o
                [i \in 1 .. Len(st.added) |-> st.added[i].text]
          /\ l_last_commit' = IF st.added = <<>> THEN l_last_commit
                              ELSE <<st.added[Len(st.added)]>>
          /\ l_call' = [op |-> "append_transcription", end_time |-> 0,
                        raised |-> st.raised, returned |-> NoSequence]
    /\ UNCHANGED l_local_agree_dim
    /\ UNCHANGED frozen5

\* pop_finalized: the walk over the committed segments
RECURSIVE finalized_walk(_, _, _)
finalized_walk(segments, finalized, potential_finalized) ==
    IF segments = <<>> THEN finalized
    ELSE IF is_sentence_end(Head(segments))
    THEN finalized_walk(Tail(segments),
                        finalized \o Append(potential_finalized,
                                            Head(segments)),
                        <<>>)
    ELSE finalized_walk(Tail(segments), finalized,
                        Append(potential_finalized, Head(segments)))

\* LocalAgree.pop_finalized
pop_finalized ==
    /\ l_local_agree_dim /= NoDim
    /\ LET finalized == finalized_walk(l_commited_segments, <<>>, <<>>)
       IN /\ l_commited_segments' =
                SubSeq(l_commited_segments, Len(finalized) + 1,
                       Len(l_commited_segments))
          /\ l_call' = [op |-> "pop_finalized", end_time |-> 0,
                        raised |-> FALSE,
                        returned |-> sequence_or_none(finalized)]
    /\ UNCHANGED <<l_local_agree_dim, l_in_progress_segments, l_commited_time,
                   l_appends, l_recent, l_settled, l_last_commit>>
    /\ UNCHANGED frozen5

\* LocalAgree.force_finalized
force_finalized(end_time) ==
    /\ l_local_agree_dim /= NoDim
    /\ LET from_commited == popped_before(l_commited_segments, end_time)
           n == Len(l_in_progress_segments)
           from_newest == IF n = 0 THEN <<>>
                          ELSE popped_before(l_in_progress_segments[n],
                                             end_time)
           newest_popped ==
               [dim \in 1 .. n |->
                   IF dim = n
                   THEN left_from(l_in_progress_segments[dim], end_time)
                   ELSE l_in_progress_segments[dim]]
           segments == from_commited \o from_newest
       IN /\ l_commited_segments' = left_from(l_commited_segments, end_time)
          /\ l_in_progress_segments' =
                [dim \in 1 .. n |-> left_from(newest_popped[dim], end_time)]
          /\ l_settled' = l_settled \o
                [i \in 1 .. Len(from_newest) |-> from_newest[i].text]
          /\ l_call' = [op |-> "force_finalized", end_time |-> end_time,
                        raised |-> FALSE,
                        returned |-> sequence_or_none(segments)]
    /\ UNCHANGED <<l_local_agree_dim, l_commited_time, l_appends, l_recent,
                   l_last_commit>>
    /\ UNCHANGED frozen5

\* get_in_progress that leaves the committed segments out
get_in_progress_newest_only ==
    IF Len(l_in_progress_segments) = 0
    THEN [raised |-> TRUE, returned |-> NoSequence]
    ELSE [raised |-> FALSE,
          returned |-> sequence_or_none(
              l_in_progress_segments[Len(l_in_progress_segments)])]

\* LocalAgree.get_in_progress: [raised, returned]; _in_progress_segments[-1]
\* is an IndexError before the first append_transcription
get_in_progress ==
    IF Len(l_in_progress_segments) = 0
    THEN [raised |-> TRUE, returned |-> NoSequence]
    ELSE [raised |-> FALSE,
          returned |-> sequence_or_none(
              l_commited_segments
                  \o l_in_progress_segments[Len(l_in_progress_segments)])]

InitAgree ==
    /\ l_local_agree_dim = NoDim
    /\ l_commited_segments = <<>>
    /\ l_in_progress_segments = <<>>
    /\ l_commited_time = 0
    /\ l_appends = 0
    /\ l_recent = <<>>
    /\ l_settled = <<>>
    /\ l_last_commit = <<>>
    /\ l_call = [op |-> "none", end_time |-> 0, raised |-> FALSE,
                 returned |-> NoSequence]

\* ================================================================== Part VI
\* WhisperStreamingProviderJob (whisper_streaming_job.py): one job with its
\* own buffer and its own stabilizer.  Only the length of the buffer is kept,
\* the samples decide nothing but the decoder's output, which is any list of
\* words.  A time is a whole number of ticks, TicksPerSample to the sample.
\* The chunk ledger, which feeds only the chunk ids and latencies of a
\* result, is left out.
MaxCalls == 3
MaxBufferSamples == 2
MaxChunkSamples == 3
MaxWords == 1
MaxWordTicks == 6
TicksPerSample == 2

\* a chunk the audio decoder rejects
BadChunk == -1

\* NPCircularBuffer.append on a buffer of the given length: what it returns
\* as not appended and the new length
buffer_append_len(curr_size, max_size, n) ==
    LET blank == [i \in 1 .. max_size |-> 0]
        sequence == [i \in 1 .. n |-> 0]
        space_available == max_size - curr_size
        fits == slice_assign(blank, curr_size, curr_size + n, sequence)
        fills == IF space_available > 0
                 THEN slice_assign(blank, curr_size, max_size,
                                   py_slice(sequence, 0, space_available))
                 ELSE [raised |-> FALSE, array |-> blank]
    IN IF n <= space_available
       THEN [raised |-> fits.raised, extra |-> 0,
             curr_size |-> IF fits.raised THEN curr_size ELSE curr_size + n]
       ELSE [raised |-> fills.raised,
             extra |-> Len(py_slice(sequence, space_available, n)),
             curr_size |-> IF fills.raised THEN curr_size ELSE max_size]

\* NPCircularBuffer.purge on a buffer of the given length
buffer_purge_len(curr_size, max_size, n) ==
    LET blank == [i \in 1 .. max_size |-> 0]
        amount == IF max_size < n THEN max_size ELSE n
        r == slice_assign(blank, 0, curr_size - amount,
                          py_slice(blank, amount, curr_size))
    IN [raised |-> r.raised,
        curr_size |-> IF r.raised THEN curr_size ELSE curr_size - amount]

\* LocalAgree.append_transcription on a stabilizer value
agree_append_transcription(la, local_agree_dim, segments) ==
    LET history == keep_last(
            Append(la.in_progress, new_segments(segments, la.commited_time)),
            local_agree_dim)
        start == [ips |-> history,
                  commited |-> la.commited,
                  commited_time |-> la.commited_time,
                  added |-> <<>>,
                  raised |-> FALSE,
                  done |-> Len(history) < local_agree_dim]
        st == commit_all(start, local_agree_dim)
    IN [raised |-> st.raised,
        la |-> [commited |-> st.commited, in_progress |-> st.ips,
                commited_time |-> st.commited_time]]

\* LocalAgree.pop_finalized on a stabilizer value
agree_pop_finalized(la) ==
    LET finalized == finalized_walk(la.commited, <<>>, <<>>)
    IN [returned |-> sequence_or_none(finalized),
        la |-> [la EXCEPT !.commited =
                   SubSeq(la.commited, Len(finalized) + 1, Len(la.commited))]]

\* LocalAgree.force_finalized on a stabilizer value
agree_force_finalized(la, end_time) ==
    LET from_commited == popped_before(la.commited, end_time)
        n == Len(la.in_progress)
        from_newest == IF n = 0 THEN <<>>
                       ELSE popped_before(la.in_progress[n], end_time)
    IN [returned |-> sequence_or_none(from_commited \o from_newest),
        la |-> [la EXCEPT
                  !.commited = left_from(la.commited, end_time),
                  !.in_progress =
                      [dim \in 1 .. n |->
                          left_from(la.in_progress[dim], end_time)]]]

\* LocalAgree.get_in_progress on a stabilizer value
agree_get_in_progress(la) ==
    IF Len(la.in_progress) = 0
    THEN [raised |-> TRUE, returned |-> NoSequence]
    ELSE [raised |-> FALSE,
          returned |-> sequence_or_none(
              la.commited \o la.in_progress[Len(la.in_progress)])]

\* _decode_audio: [raised, curr_size]
RECURSIVE decode_audio(_, _, _)
decode_audio(batch, curr_size, max_size) ==
    IF batch = <<>> THEN [raised |-> "none", curr_size |-> curr_size]
    ELSE IF Head(batch) = BadChunk
    THEN [raised |-> "TranscriptionClientError", curr_size |-> curr_size]
    ELSE LET a == buffer_append_len(curr_size, max_size, Head(batch))
         IN IF a.raised
            THEN [raised |-> "ValueError", curr_size |-> a.curr_size]
            ELSE IF a.extra > 0
            THEN [raised |-> "TranscriptionClientError",
                  curr_size |-> a.curr_size]
            ELSE decode_audio(Tail(batch), a.curr_size, max_size)

\* (samples) / SAMPLE_RATE
to_time(samples) == samples * TicksPerSample

\* int(end_time * SAMPLE_RATE); the product of a whole number of samples can
\* fall just below it, int() then gives one less
to_samples(end_time, rounds_down) ==
    IF rounds_down /\ end_time % TicksPerSample = 0
    THEN (end_time \div TicksPerSample) - 1
    ELSE end_time \div TicksPerSample

\* _transcribe_audio: the words of the decoder placed after the offset
transcribe_audio(words, curr_size, offset_samples) ==
    IF curr_size = 0 THEN <<>>
    ELSE [i \in 1 .. Len(words) |->
            TranscriptionSegment(words[i].text,
                                 to_time(offset_samples) + words[i].start,
                                 to_time(offset_samples) + words[i].end)]

\* _append_sequence: a after b was appended to it
append_sequence(a, b) ==
    [none |-> FALSE,
     text |-> a.text \o b.text,
     starts |-> a.starts \o b.starts,
     ends |-> a.ends \o b.ends]

\* "".join(sequence.text)
join_text(sequence) == Flatten(sequence.text)

\* the offset that goes back by what was purged
advance_offset_backwards(offset_samples, samples_to_purge) ==
    offset_samples - samples_to_purge

\* _buffer_offset_samples += samples_to_purge
advance_offset(offset_samples, samples_to_purge) ==
    offset_samples + samples_to_purge

\* process_batch, lines 260-274: the forced finalization when the buffer
\* holds more than max_buffer_samples
forced_finalization(curr_size) ==
    LET samples_to_purge == curr_size - MaxBufferSamples
        end_time == to_time(j_buffer_offset_samples + samples_to_purge)
    IN IF curr_size > MaxBufferSamples
       THEN [f |-> agree_force_finalized(j_local_agree, end_time),
             purged |-> buffer_purge_len(curr_size, MaxBufferSamples * 2,
                                         samples_to_purge),
             offset |-> advance_offset(j_buffer_offset_samples,
                                       samples_to_purge)]
       ELSE [f |-> [returned |-> NoSequence, la |-> j_local_agree],
             purged |-> [raised |-> FALSE, curr_size |-> curr_size],
             offset |-> j_buffer_offset_samples]

\* what a call has done when nothing more happens
outcome_of(forced) ==
    [raised |-> "none", curr_size |-> forced.purged.curr_size,
     offset |-> forced.offset, la |-> forced.f.la,
     last_finalized |-> j_last_finalized,
     final |-> NoSequence, in_progress |-> NoSequence,
     forced |-> forced.f.returned, popped |-> NoSequence]

\* process_batch, lines 292-304: final and forced_final after the stabilizer
\* returned popped
merge_finals(after, forced_final, popped, end_samples, purge2) ==
    IF popped.none /\ ~forced_final.none
    \* final = forced_final, then _append_sequence(forced_final, final) with
    \* both names on one object
    THEN [after EXCEPT
            !.final = append_sequence(forced_final, forced_final),
            !.last_finalized =
                join_text(append_sequence(forced_final, forced_final))]
    ELSE IF popped.none THEN after
    ELSE IF purge2.raised THEN [after EXCEPT !.raised = "ValueError"]
    ELSE IF forced_final.none
    THEN [after EXCEPT !.curr_size = purge2.curr_size,
                       !.offset = end_samples,
                       !.final = popped,
                       !.last_finalized = join_text(popped)]
    ELSE [after EXCEPT
            !.curr_size = purge2.curr_size,
            !.offset = end_samples,
            !.final = append_sequence(forced_final, popped),
            !.last_finalized =
                join_text(append_sequence(forced_final, popped))]

\* process_batch, lines 290-299: pop_finalized, get_in_progress and the purge
\* of the finalized audio
pop_and_purge(base, p, rounds_down) ==
    LET end_samples == IF p.returned.none THEN 0
                       ELSE to_samples(
                                p.returned.ends[Len(p.returned.ends)],
                                rounds_down)
    IN merge_finals(
           [base EXCEPT !.la = p.la,
                        !.in_progress = agree_get_in_progress(p.la).returned,
                        !.popped = p.returned],
           base.forced, p.returned, end_samples,
           buffer_purge_len(base.curr_size, MaxBufferSamples * 2,
                            end_samples - base.offset))

\* process_batch, lines 289-304: the stabilizer is given the segments
stabilize(base, a, rounds_down) ==
    IF a.raised THEN [base EXCEPT !.raised = "IndexError", !.la = a.la]
    ELSE pop_and_purge(base, agree_pop_finalized(a.la), rounds_down)

\* process_batch, lines 279-304
transcribe_and_stabilize(base, segments, words_missing, rounds_down) ==
    IF base.curr_size /= 0 /\ words_missing
    THEN [base EXCEPT !.raised = "RuntimeError"]
    ELSE IF Len(segments) = 0
    THEN [base EXCEPT
            !.last_finalized = IF base.forced.none THEN j_last_finalized
                               ELSE join_text(base.forced),
            !.final = base.forced]
    ELSE stabilize(base,
                   agree_append_transcription(base.la, j_local_agree_dim,
                                              segments),
                   rounds_down)

\* process_batch after _decode_audio, given what the forced finalization did
after_forced(forced, words, words_missing, rounds_down) ==
    IF forced.purged.raised
    THEN [outcome_of(forced) EXCEPT !.raised = "ValueError"]
    ELSE transcribe_and_stabilize(
             outcome_of(forced),
             transcribe_audio(words, forced.purged.curr_size, forced.offset),
             words_missing, rounds_down)

\* process_batch from the forced finalization on: the buffer holds curr_size
\* samples after _decode_audio
process_decoded(curr_size, words, words_missing, rounds_down) ==
    after_forced(forced_finalization(curr_size), words, words_missing,
                 rounds_down)

\* process_batch: what the call leaves behind
process_outcome(d, r) ==
    IF d.raised /= "none"
    THEN /\ j_buffer_len' = d.curr_size
         /\ j_failed' = TRUE
         /\ j_result' = [raised |-> d.raised, final |-> NoSequence,
                         in_progress |-> NoSequence,
                         forced |-> NoSequence, popped |-> NoSequence]
         /\ UNCHANGED <<j_buffer_offset_samples, j_local_agree,
                        j_last_finalized>>
    ELSE /\ j_buffer_len' = r.curr_size
         /\ j_buffer_offset_samples' = r.offset
         /\ j_local_agree' = r.la
         /\ j_last_finalized' = r.last_finalized
         /\ j_failed' = (r.raised /= "none")
         /\ j_result' = [raised |-> r.raised, final |-> r.final,
                         in_progress |-> r.in_progress,
                         forced |-> r.forced, popped |-> r.popped]

\* the buffer after _decode_audio and the rest of the call
process_from(d, words, words_missing, rounds_down) ==
    process_outcome(d, process_decoded(d.curr_size, words, words_missing,
                                       rounds_down))

\* WhisperStreamingProviderJob.__init__
JobInit(local_agree_dim) ==
    /\ j_local_agree_dim = NoDim
    /\ local_agree_dim >= 1
    /\ j_local_agree_dim' = local_agree_dim
    /\ j_buffer_len' = 0
    /\ j_buffer_offset_samples' = 0
    /\ j_local_agree' = [commited |-> <<>>, in_progress |-> <<>>,
                         commited_time |-> 0]
    /\ j_last_finalized' = <<>>
    /\ UNCHANGED <<j_calls, j_failed, j_result>>
    /\ UNCHANGED frozen6

\* WhisperStreamingProviderJob.process_batch; the worker never calls a job
\* again after a call raised
process_batch(batch, words, words_missing, rounds_down) ==
    /\ j_local_agree_dim /= NoDim
    /\ ~j_failed
    /\ j_calls < MaxCalls
    /\ j_calls' = j_calls + 1
    /\ process_from(decode_audio(batch, j_buffer_len, MaxBufferSamples * 2),
                    words, words_missing, rounds_down)
    /\ UNCHANGED j_local_agree_dim
    /\ UNCHANGED frozen6

InitJob ==
    /\ j_local_agree_dim = NoDim
    /\ j_buffer_len = 0
    /\ j_buffer_offset_samples = 0
    /\ j_local_agree = [commited |-> <<>>, in_progress |-> <<>>,
                        commited_time |-> 0]
    /\ j_last_finalized = <<>>
    /\ j_calls = 0
    /\ j_failed = FALSE
    /\ j_result = [raised |-> "none", final |-> NoSequence,
                   in_progress |-> NoSequence, forced |-> NoSequence,
                   popped |-> NoSequence]

\* ================================================================= Part VII
\* One websocket connection: TranscriptionStreamController over
\* WebsocketHandler.  close() only creates an asyncio task (_close); the task
\* runs at a later suspension point of the event loop, so a message that is
\* already there, the init timeout or a session event can be handled between
\* a close() call and the moment the websocket is closed.  Tasks run in the
\* order of their creation.  The state starts after _ws.accept().
\*
\* The collaborators are inputs: whether the auth service accepts the key,
\* and what create_session and handle_audio_chunk raise.  Results of the
\* session (_handle_transcription_result, send) are not modelled.
MaxTasks == 2
MaxForwarded == 2

NoClose == [code |-> 0, reason |-> "None"]
ClientErrorMessage == "error.message"
Raisable == {"None", "TranscriptionClientError", "Exception"}
Errors == {"ValidationError", "TranscriptionClientError", "Exception"}

\* the fields of the controller a handler reads and writes
Self ==
    [is_authenticated |-> c_is_authenticated, session |-> c_session,
     timeout_task |-> c_timeout_task, tasks |-> c_tasks,
     sessions_created |-> c_sessions_created, forwarded |-> c_forwarded]

close(self, code, reason) ==
    [self EXCEPT !.tasks = Append(@, [code |-> code, reason |-> reason])]

init_timeout_unconditional(self) == close(self, 1008, "Auth Timeout")

init_timeout(self) ==
    IF ~self.is_authenticated THEN close(self, 1008, "Auth Timeout")
    ELSE IF self.session = "None" THEN close(self, 1008, "Config Timeout")
    ELSE self

auth(self, accepted) ==
    IF self.is_authenticated
    THEN close(self, 1008, "Unexpected Auth Message")
    ELSE IF ~accepted THEN close(self, 1008, "Authentication Failed")
    ELSE [self EXCEPT !.is_authenticated = TRUE]

\* creation: what create_session raises, "None" when it returns a session
config_any_time(self, creation) ==
    IF creation # "None" THEN [self |-> self, raised |-> creation]
    ELSE [self |-> [self EXCEPT !.session = "Live",
                                !.sessions_created = @ + 1],
          raised |-> "None"]

config(self, creation) ==
    IF ~self.is_authenticated \/ self.session # "None"
    THEN [self |-> close(self, 1008, "Unexpected Config Message"),
          raised |-> "None"]
    ELSE IF creation # "None" THEN [self |-> self, raised |-> creation]
    ELSE [self |-> [self EXCEPT !.session = "Live",
                                !.sessions_created = @ + 1],
          raised |-> "None"]

\* handled: what handle_audio_chunk raises
audio_chunk(self, handled) ==
    IF ~self.is_authenticated
    THEN [self |-> close(self, 1008, "Audio chunk before authentication"),
          raised |-> "None"]
    ELSE IF self.session = "None"
    THEN [self |-> close(self, 1008, "Audio chunk before configuration"),
          raised |-> "None"]
    ELSE [self |-> [self EXCEPT !.forwarded = @ + 1], raised |-> handled]

handle_text_message(self, msg) ==
    IF msg.kind = "malformed"
    THEN [self |-> self, raised |-> "ValidationError"]
    ELSE IF msg.kind = "auth"
    THEN [self |-> auth(self, msg.outcome = "accept"), raised |-> "None"]
    ELSE config(self, msg.outcome)

handle_binary_message(self, msg) == audio_chunk(self, msg.outcome)

handle_close(self) ==
    [self EXCEPT !.timeout_task = IF @ = "SLEEPING" THEN "CANCELLED" ELSE @,
                 !.session = IF @ = "None" THEN @ ELSE "Ended"]

handle_error(self, error) ==
    IF error = "ValidationError"
    THEN [self |-> close(self, 1007, "Invalid message format"),
          prevent_close |-> TRUE]
    ELSE IF error = "TranscriptionClientError"
    THEN [self |-> close(self, 1007, ClientErrorMessage),
          prevent_close |-> TRUE]
    ELSE [self |-> self, prevent_close |-> FALSE]

internal_handle_error_of(handled) ==
    IF handled.prevent_close THEN handled.self
    ELSE close(handled.self, 1011, "Internal Server Error")

internal_handle_error(self, error) ==
    internal_handle_error_of(handle_error(self, error))

internal_handle_message(self, msg) ==
    IF msg.kind = "disconnect"
    THEN [self |-> handle_close(self), raised |-> "None", returns |-> TRUE]
    ELSE IF msg.kind = "bytes"
    THEN [returns |-> FALSE] @@ handle_binary_message(self, msg)
    ELSE [returns |-> FALSE] @@ handle_text_message(self, msg)

\* the close() calls of a step: the tasks it added
closes_of(before, after) ==
    SubSeq(after.tasks, Len(before.tasks) + 1, Len(after.tasks))

Becomes(before, after, step, msg, error) ==
    /\ c_is_authenticated' = after.is_authenticated
    /\ c_session' = after.session
    /\ c_timeout_task' = after.timeout_task
    /\ c_tasks' = after.tasks
    /\ c_sessions_created' = after.sessions_created
    /\ c_forwarded' = after.forwarded
    /\ c_last' = [step |-> step, msg |-> msg, error |-> error,
                  closes |-> closes_of(before, after)]

NoMessage == [kind |-> "None", outcome |-> "None"]

\* one iteration of the loop of receive_messages: the message arrives, is
\* handled, an exception goes to __internal_handle_error, and the loop
\* checks the two states before it awaits the next message
receive_handled(self, msg, r) ==
    /\ Becomes(self,
               IF r.raised = "None" THEN r.self
               ELSE internal_handle_error(r.self, r.raised),
               "receive", msg, r.raised)
    /\ c_client_state' = IF msg.kind = "disconnect" THEN "DISCONNECTED"
                         ELSE c_client_state
    /\ c_loop' = IF r.returns \/ c_application_state # "CONNECTED"
                 THEN "returned" ELSE "receive"

receive_messages(msg) ==
    /\ c_loop = "receive"
    /\ c_client_state = "CONNECTED"
    /\ Len(c_tasks) < MaxTasks
    /\ msg.kind = "bytes" => c_forwarded < MaxForwarded
    /\ receive_handled(Self, msg, internal_handle_message(Self, msg))
    /\ UNCHANGED <<c_application_state, c_ws_close>>
    /\ UNCHANGED frozen7

\* the asyncio.sleep of _init_timeout is over
timeout_elapses ==
    /\ c_timeout_task = "SLEEPING"
    /\ Len(c_tasks) < MaxTasks
    /\ Becomes(Self, [init_timeout(Self) EXCEPT !.timeout_task = "DONE"],
               "timeout", NoMessage, "None")
    /\ UNCHANGED <<c_application_state, c_client_state, c_loop, c_ws_close>>
    /\ UNCHANGED frozen7

\* the session emits TranscriptionErrorEvent; the listener registered in
\* _config is _handle_error and emit() drops what a listener returns
session_error(error) ==
    /\ c_session = "Live"
    /\ Len(c_tasks) < MaxTasks
    /\ Becomes(Self, handle_error(Self, error).self, "session_error",
               NoMessage, error)
    /\ UNCHANGED <<c_application_state, c_client_state, c_loop, c_ws_close>>
    /\ UNCHANGED frozen7

\* the oldest _close() task runs
close_task ==
    /\ c_tasks # <<>>
    /\ IF c_application_state = "CONNECTED"
       THEN /\ c_application_state' = "DISCONNECTED"
            /\ c_ws_close' = Head(c_tasks)
       ELSE UNCHANGED <<c_application_state, c_ws_close>>
    /\ c_tasks' = Tail(c_tasks)
    /\ c_last' = [step |-> "close_task", msg |-> NoMessage, error |-> "None",
                  closes |-> <<>>]
    /\ UNCHANGED <<c_is_authenticated, c_session, c_timeout_task,
                   c_client_state, c_loop, c_sessions_created, c_forwarded>>
    /\ UNCHANGED frozen7

InitController ==
    /\ c_is_authenticated = FALSE
    /\ c_session = "None"
    /\ c_timeout_task = "SLEEPING"
    /\ c_application_state = "CONNECTED"
    /\ c_client_state = "CONNECTED"
    /\ c_tasks = <<>>
    /\ c_loop = "receive"
    /\ c_ws_close = NoClose
    /\ c_sessions_created = 0
    /\ c_forwarded = 0
    /\ c_last = [step |-> "None", msg |-> NoMessage, error |-> "None",
                 closes |-> <<>>]

\* ================================================================ Part VIII
\* EventEmitter (event_emitter.py).  A callback is opaque: calling it does
\* not touch the emitter.  A wrapper is [callback, should_call_once, reg],
\* reg being the registration that created it (the identity of the object).
MaxRegistrations == 2
MaxEmits == 2
Events == {"a", "b"}
Callbacks == {"f", "g"}
AllEvents == "None"

\* _CallbackWrapper.__eq__: the callbacks are compared, nothing else
wrapper_eq(self, other) == other.callback = self.callback

\* list.remove(x): the first element equal to x is removed; ValueError when
\* there is none.  [raised, list]
RECURSIVE list_remove(_, _)
list_remove(list, x) ==
    IF list = <<>> THEN [raised |-> TRUE, list |-> <<>>]
    ELSE IF wrapper_eq(Head(list), x)
    THEN [raised |-> FALSE, list |-> Tail(list)]
    ELSE LET r == list_remove(Tail(list), x)
         IN [raised |-> r.raised, list |-> <<Head(list)>> \o r.list]

\* emit, lines 131-132: each listener of to_remove is removed in turn
RECURSIVE remove_each(_, _)
remove_each(list, to_remove) ==
    IF to_remove = <<>> THEN list
    ELSE remove_each(list_remove(list, Head(to_remove)).list, Tail(to_remove))

\* self._listeners[event.name], with the empty list made for a new event
listeners_of(event) ==
    IF event \in DOMAIN e_listeners THEN e_listeners[event] ELSE <<>>

\* on() and once(): a wrapper is appended to the list of the event
register(event, callback, should_call_once) ==
    /\ Len(e_history.regs) < MaxRegistrations
    /\ e_listeners' =
          DictSet(e_listeners, event,
                  Append(listeners_of(event),
                         [callback |-> callback,
                          should_call_once |-> should_call_once,
                          reg |-> Len(e_history.regs) + 1]))
    /\ e_history' =
          [e_history EXCEPT
              !.regs = Append(@, [event |-> event, callback |-> callback,
                                   once |-> should_call_once, calls |-> 0,
                                   removal |-> FALSE]),
              !.op = IF should_call_once THEN "once" ELSE "on",
              !.event = event,
              !.raised = FALSE]
    /\ UNCHANGED frozen8

on(event, callback) == register(event, callback, FALSE)

once(event, callback) == register(event, callback, TRUE)

\* emit: every listener of the event is called, then the once listeners are
\* removed with list.remove
emit(event) ==
    /\ e_history.emits < MaxEmits
    /\ LET listeners == listeners_of(event)
           called == {listeners[i].reg : i \in 1 .. Len(listeners)}
           to_remove == SelectSeq(listeners, LAMBDA l : l.should_call_once)
       IN /\ e_listeners' =
                IF event \in DOMAIN e_listeners
                THEN DictSet(e_listeners, event,
                             remove_each(listeners, to_remove))
                ELSE e_listeners
          /\ e_history' =
                [e_history EXCEPT
                    !.regs = [i \in 1 .. Len(@) |->
                                 IF i \in called
                                 THEN [@[i] EXCEPT !.calls = @ + 1]
                                 ELSE @[i]],
                    !.emits = @ + 1,
                    !.op = "emit",
                    !.event = event,
                    !.raised = FALSE]
    /\ UNCHANGED frozen8

\* remove_listener: list.remove of a fresh wrapper of the callback
remove_listener(event, callback) ==
    /\ LET r == list_remove(listeners_of(event),
                            [callback |-> callback,
                             should_call_once |-> FALSE, reg |-> 0])
           present == event \in DOMAIN e_listeners
       IN /\ e_listeners' =
                IF present /\ ~r.raised
                THEN DictSet(e_listeners, event, r.list)
                ELSE e_listeners
          /\ e_history' =
                [e_history EXCEPT
                    !.regs = [i \in 1 .. Len(@) |->
                                 IF @[i].event = event
                                    /\ @[i].callback = callback
                                 THEN [@[i] EXCEPT !.removal = TRUE]
                                 ELSE @[i]],
                    !.op = "remove_listener",
                    !.event = event,
                    !.raised = present /\ r.raised]
    /\ UNCHANGED frozen8

\* remove_all_listeners(event), AllEvents standing for no argument
remove_all_listeners(event) ==
    /\ e_listeners' =
          IF event = AllEvents THEN <<>> ELSE DictDel(e_listeners, event)
    /\ e_history' =
          [e_history EXCEPT
              !.regs = [i \in 1 .. Len(@) |->
                           IF event = AllEvents \/ @[i].event = event
                           THEN [@[i] EXCEPT !.removal = TRUE]
                           ELSE @[i]],
              !.op = "remove_all_listeners",
              !.event = event,
              !.raised = FALSE]
    /\ UNCHANGED frozen8

InitEmitter ==
    /\ e_listeners = <<>>
    /\ e_history = [regs |-> <<>>, emits |-> 0, op |-> "None",
                    event |-> "None", raised |-> FALSE]

\* ============================================================ specification
Init ==
    /\ next_job_id = 0
    /\ registered_job_handles = {}
    /\ job_context_ids = <<>>
    /\ handle_queue_data = {}
    /\ handle_deregister = {}
    /\ poller_running = TRUE
    /\ emitted = [j \in JobIds |-> <<>>]
    /\ task_queue = <<>>
    /\ result_queue = <<>>
    /\ pc = "admin"
    /\ state = "ADMIN"
    /\ last_state_change = 0
    /\ job_entries = <<>>
    /\ entry_order = <<>>
    /\ instance_table = <<>>
    /\ table_order = <<>>
    /\ should_exit = FALSE
    /\ cur_job = NoJob
    /\ sched_time = 0
    /\ idle_until = NoTime
    /\ now = 0
    /\ next_item = 0
    /\ sent = [j \in JobIds |-> <<>>]
    /\ dereg_sent = [j \in JobIds |-> 0]
    /\ qd_after_dereg = [j \in JobIds |-> 0]
    /\ produced = [j \in JobIds |-> <<>>]
    /\ live = {}
    /\ created = [c \in ContextDefIds |-> 0]
    /\ executing = {}
    /\ elapsed_ns = 0
    /\ InitPool
    /\ InitUtil
    /\ InitBuffer
    /\ InitAgree
    /\ InitJob
    /\ InitController
    /\ InitEmitter

RegisterJob == \E k \in JobKinds : register_job(k[1], k[2])
QueueData == \E j \in JobIds, k \in 1 .. MaxBatch : queue_data(j, k)
Deregister == \E j \in JobIds : deregister(j)

Next ==
    \/ RegisterJob
    \/ QueueData
    \/ Deregister
    \/ poll_results
    \/ Tick
    \/ W_admin_task
    \/ W_schedule
    \/ W_execute_job
    \/ W_idle_task
    \/ W_idle_timeout

Spec == Init /\ [][Next]_vars

\* The same worker and manager with shutdown: send_terminate may be called at
\* any time; every job is registered with context 0 and a period of 1 ms.
RegisterJobT == register_job(<<0>>, 1)

NextTerm ==
    \/ RegisterJobT
    \/ QueueData
    \/ Deregister
    \/ poll_results
    \/ send_terminate
    \/ Tick
    \/ W_exit
    \/ W_admin_task
    \/ W_schedule
    \/ W_execute_job
    \/ W_idle_task
    \/ W_idle_timeout

SpecTerm == Init /\ [][NextTerm]_vars

\* The worker process keeps running: each step of execution_loop that can be
\* taken is taken, and _execute_job returns.  The main process is free.
WorkerRuns ==
    /\ WF_vars(W_exit)
    /\ WF_vars(W_admin_task)
    /\ WF_vars(W_schedule)
    /\ WF_vars(W_execute_job)
    /\ WF_vars(W_idle_task)

\* Shutdown of a worker whose jobs end by failing, never by a deregister call
NextShutdown ==
    \/ RegisterJobT
    \/ QueueData
    \/ poll_results
    \/ send_terminate
    \/ Tick
    \/ W_exit
    \/ W_admin_task
    \/ W_schedule
    \/ W_execute_job
    \/ W_idle_task
    \/ W_idle_timeout

SpecShutdown == Init /\ [][NextShutdown]_vars /\ WorkerRuns

\* Jobs that are registered, run, fail or are deregistered, and receive no
\* data.  The worker is kept running, and the result pump with it: the pump
\* is an asyncio task that loops on the result queue.
NextRuns ==
    \/ RegisterJob
    \/ Deregister
    \/ poll_results
    \/ Tick
    \/ W_admin_task
    \/ W_schedule
    \/ W_execute_job
    \/ W_idle_task
    \/ W_idle_timeout

SpecRuns == Init /\ [][NextRuns]_vars /\ WorkerRuns /\ WF_vars(poll_results)

\* _process.join() of wait_shutdown returns: the worker process has ended
wait_shutdown_returns == pc \in {"exited", "crashed"}

\* The pool and its managers: callers register jobs by tag while the pumps
\* feed the utilization.  No registration returns a handle, so no handle
\* method is ever called.
PoolRegister == \E context_tags \in TagTuples : PoolRegisterJob(context_tags)
PoolUtilization == \E process_id \in Procs : PoolStateChange(process_id)

NextPool ==
    \/ PoolRegister
    \/ PoolUtilization

SpecPool == Init /\ [][NextPool]_vars

\* A rolling utilization fed with any increments
UtilConstruct == \E w \in Windows : UtilInit(w)
UtilIncrement ==
    \E st \in WorkerStates, d \in 0 .. MaxDuration : increment(st, d)

NextUtil ==
    \/ UtilConstruct
    \/ UtilIncrement

SpecUtil == Init /\ [][NextUtil]_vars

\* A circular buffer under any appends and purges
BufferConstruct == \E max_size \in BufferSizes : BufferInit(max_size)
BufferAppend == \E n \in 0 .. MaxChunk : append(n)
BufferPurge == \E n \in 0 .. MaxPurge : purge(n)

NextBuffer ==
    \/ BufferConstruct
    \/ BufferAppend
    \/ BufferPurge

SpecBuffer == Init /\ [][NextBuffer]_vars

\* The words and times of the hypotheses handed to the stabilizer
Words == {<<"a">>, <<"b", ".">>, <<"c", ".", ".", ".">>, <<"d", "?">>}
FewWords == {<<"a">>, <<"b", ".">>}
Secs == 0 .. MaxSec

SegmentsOf(words) ==
    {TranscriptionSegment(w, t[1], t[2]) :
        w \in words, t \in {u \in Secs \X Secs : u[1] <= u[2]}}

RECURSIVE Hypotheses(_, _)
Hypotheses(segments, n) ==
    IF n = 0 THEN {<<>>}
    ELSE LET shorter == Hypotheses(segments, n - 1)
         IN shorter \cup {Append(h, s) : h \in shorter, s \in segments}

\* every segment ends no later than the next one starts
TimeOrdered(h) ==
    \A i \in 1 .. Len(h) - 1 : h[i].end <= h[i + 1].start

OrderedHypotheses ==
    {h \in Hypotheses(SegmentsOf(Words), MaxSegments) : TimeOrdered(h)}
AnyHypotheses == Hypotheses(SegmentsOf(FewWords), MaxSegments)

\* A stabilizer fed with time-ordered hypotheses
AgreeConstruct == \E d \in LocalAgreeDims : AgreeInit(d)
AgreeAppend == \E segments \in OrderedHypotheses : append_transcription(segments)
AgreePop == pop_finalized
AgreeForce == \E end_time \in 1 .. MaxSec + 1 : force_finalized(end_time)

NextAgree ==
    \/ AgreeConstruct
    \/ AgreeAppend
    \/ AgreePop
    \/ AgreeForce

SpecAgree == Init /\ [][NextAgree]_vars

\* A stabilizer fed with hypotheses of any timestamps
AgreeAppendAny == \E segments \in AnyHypotheses : append_transcription(segments)

NextAgreeAny ==
    \/ AgreeConstruct
    \/ AgreeAppendAny
    \/ AgreePop
    \/ AgreeForce

SpecAgreeAny == Init /\ [][NextAgreeAny]_vars

\* A streaming job under any batches and any decoder output
Chunks == {BadChunk} \cup 1 .. MaxChunkSamples
Batches == {<<>>, <<1, 1>>} \cup {<<c>> : c \in Chunks}

\* a word of the decoder: times from the start of the audio it was given,
\* within the first sample or far past the audio
WordTicks == (0 .. TicksPerSample) \cup {MaxWordTicks}
DecoderWords ==
    {[text |-> w, start |-> t[1], end |-> t[2]] :
        w \in FewWords,
        t \in {u \in WordTicks \X WordTicks : u[1] <= u[2]}}

RECURSIVE WordLists(_)
WordLists(n) ==
    IF n = 0 THEN {<<>>}
    ELSE LET shorter == WordLists(n - 1)
         IN shorter \cup {Append(h, w) : h \in shorter, w \in DecoderWords}

JobConstruct == \E d \in LocalAgreeDims : JobInit(d)
DecoderOutputs == WordLists(MaxWords)

JobProcessBatch ==
    \E batch \in Batches, words \in DecoderOutputs, rounds_down \in BOOLEAN :
        \E words_missing \in IF words = <<>> /\ ~rounds_down
                             THEN BOOLEAN ELSE {FALSE} :
            process_batch(batch, words, words_missing, rounds_down)

NextJob ==
    \/ JobConstruct
    \/ JobProcessBatch

SpecJob == Init /\ [][NextJob]_vars

\* One connection under any client, any timing and any session failure
ClientMessages ==
    {[kind |-> "malformed", outcome |-> "None"],
     [kind |-> "disconnect", outcome |-> "None"],
     [kind |-> "auth", outcome |-> "accept"],
     [kind |-> "auth", outcome |-> "reject"]}
    \cup {[kind |-> k, outcome |-> o] : k \in {"config", "bytes"},
                                        o \in Raisable}

Receive == \E msg \in ClientMessages : receive_messages(msg)
SessionError == \E error \in Errors : session_error(error)

NextController ==
    \/ Receive
    \/ timeout_elapses
    \/ SessionError
    \/ close_task

SpecController == Init /\ [][NextController]_vars

\* An emitter under any registrations, emits and removals
EmitterOn == \E event \in Events, callback \in Callbacks : on(event, callback)
EmitterOnce ==
    \E event \in Events, callback \in Callbacks : once(event, callback)
EmitterEmit == \E event \in Events : emit(event)
EmitterRemove ==
    \E event \in Events, callback \in Callbacks :
        remove_listener(event, callback)
EmitterRemoveAll ==
    \E event \in Events \cup {AllEvents} : remove_all_listeners(event)

NextEmitter ==
    \/ EmitterOn
    \/ EmitterOnce
    \/ EmitterEmit
    \/ EmitterRemove
    \/ EmitterRemoveAll

SpecEmitter == Init /\ [][NextEmitter]_vars

\* ================================================================ properties
Last(s) == s[Len(s)]
StrictlyIncreasing(s) == \A i, k \in 1 .. Len(s) : i < k => s[i] < s[k]
IsPrefix(s, t) == Len(s) <= Len(t) /\ SubSeq(t, 1, Len(s)) = s

\* the batches process_batch received for job j, concatenated in order
Delivered(j) == Flatten([i \in 1 .. Len(produced[j]) |-> produced[j][i].batch])

\* the items of job j that are still on the task queue, in order
InFlight(j) ==
    LET ts == SelectSeq(task_queue,
                  LAMBDA t : t.type = "QUEUE_DATA" /\ t.job_id = j)
    IN Flatten([i \in 1 .. Len(ts) |-> ts[i].data])

\* the job results of job j that are still on the result queue
Pending(j) ==
    Len(SelectSeq(result_queue,
            LAMBDA r : r.type = "JOB_EXECUTION" /\ r.job_id = j))

\* ---------------------------------------------------------------------- C1
\* C1: whenever the worker starts executing a job, that job is READY, its
\* deadline (period start plus period) is the smallest among the READY
\* entries, and no SLEEPING entry whose period had started at the scheduler's
\* clock reading is left unflipped.
C1_EarliestDeadlineFirst ==
    pc = "exec" =>
        /\ cur_job \in DOMAIN job_entries
        /\ job_entries[cur_job].state = "READY"
        /\ \A j \in DOMAIN job_entries :
              /\ job_entries[j].state = "READY" =>
                    deadline_ns(job_entries[cur_job]) <= deadline_ns(job_entries[j])
              /\ ~(job_entries[j].state = "SLEEPING"
                    /\ job_entries[j].period_start_ns < sched_time)

\* the job chosen is not the first READY entry of the dict: an entry
\* registered before it is READY with a later deadline
C1_Witness ==
    /\ pc = "exec"
    /\ \E i, k \in 1 .. Len(entry_order) :
          /\ i < k
          /\ entry_order[k] = cur_job
          /\ job_entries[entry_order[i]].state = "READY"
          /\ deadline_ns(job_entries[entry_order[i]])
                > deadline_ns(job_entries[cur_job])

\* ---------------------------------------------------------------------- C2
C2_Inv ==
    /\ Cardinality(executing) <= 1
    /\ executing /= {} => state = "BUSY" /\ pc = "exec" /\ executing = {cur_job}

C2_NoAdminWhileExecuting ==
    executing /= {} =>
        /\ IsPrefix(task_queue, task_queue')
        /\ DOMAIN job_entries' = DOMAIN job_entries
        /\ entry_order' = entry_order
        /\ \A j \in DOMAIN job_entries :
              Len(job_entries'[j].buffer) <= Len(job_entries[j].buffer)
        /\ should_exit' = should_exit

\* C2: at most one job executes at any time, a job executes only while the
\* worker state is BUSY, and while a job executes no task is taken from the
\* task queue and none of REGISTER_JOB, DEREGISTER_JOB, QUEUE_DATA or
\* TERMINATE takes effect on the worker.
C2_SingleExecution == []C2_Inv /\ [][C2_NoAdminWhileExecuting]_vars

\* a job executes while a TERMINATE and a QUEUE_DATA task wait in the queue
C2_Witness ==
    /\ executing /= {}
    /\ \E i, k \in 1 .. Len(task_queue) :
          /\ task_queue[i].type = "QUEUE_DATA"
          /\ task_queue[k].type = "TERMINATE_WORKER"

\* ---------------------------------------------------------------------- C3
\* C3: a job whose context creation or process_batch raised has produced
\* exactly one failure, which is its last result; its entry is ERRORED and
\* is not executed again; a failed context creation runs process_batch on
\* nothing and leaves the buffer as it was.
C3_FailureIsFinal ==
    \A j \in JobIds :
        /\ \A i \in 1 .. Len(produced[j]) :
              /\ ~produced[j][i].ok => i = Len(produced[j])
              /\ ~produced[j][i].pb =>
                    ~produced[j][i].ok /\ produced[j][i].batch = <<>>
        /\ (produced[j] /= <<>> /\ ~Last(produced[j]).ok) =>
              /\ j \notin executing
              /\ j \in DOMAIN job_entries => job_entries[j].state = "ERRORED"

\* the scheduler has passed over an ERRORED entry whose period had started
\* and whose context creation had failed
C3_Witness ==
    /\ pc \in {"idle", "exec"}
    /\ \E j \in DOMAIN job_entries :
          /\ j /= cur_job
          /\ job_entries[j].state = "ERRORED"
          /\ ~Last(produced[j]).pb
          /\ job_entries[j].period_start_ns < sched_time

\* ---------------------------------------------------------------------- C4
\* C4: the job results emitted on a handle are results the worker produced
\* for that job, in the order it produced them, and none is emitted twice.
C4_EmittedInOrder ==
    \A j \in JobIds :
        /\ StrictlyIncreasing(emitted[j])
        /\ \A i \in 1 .. Len(emitted[j]) : emitted[j][i] <= Len(produced[j])

\* two results of one job were emitted
C4_Witness == \E j \in JobIds : Len(emitted[j]) >= 2

\* ---------------------------------------------------------------------- C5
C5_Inv ==
    \A j \in registered_job_handles :
        Len(produced[j]) = Len(emitted[j]) + Pending(j)

C5_Silent ==
    \A j \in JobIds : j \notin handle_deregister => emitted'[j] = emitted[j]

\* C5: once deregister() has returned, nothing more is emitted on that
\* handle, whatever the worker still produces for the job; every result of
\* a job that is still registered is emitted or waits on the result queue.
C5_NoEmitAfterDeregister == []C5_Inv /\ [][C5_Silent]_vars

\* a result of a deregistered job was taken from the queue and dropped, and
\* a result of another job was emitted
C5_Witness ==
    \E j, k \in JobIds :
        /\ j /= k
        /\ dereg_sent[j] = 1
        /\ Len(produced[j]) > Len(emitted[j])
        /\ Pending(j) = 0
        /\ j \notin executing
        /\ emitted[k] /= <<>>

\* ---------------------------------------------------------------------- C6
\* C6: for every handle exactly one DEREGISTER_JOB is sent, at its first
\* deregistration (by deregister() or by the pump after a failure); after it
\* the handle sends no QUEUE_DATA and both callbacks are gone.
C6_DeregisterOnce ==
    \A j \in JobIds :
        /\ dereg_sent[j] <= 1
        /\ j < next_job_id => (dereg_sent[j] = 1 <=> j \notin handle_deregister)
        /\ qd_after_dereg[j] = 0
        /\ j \notin handle_deregister => j \notin handle_queue_data

\* a handle that sent data was deregistered by the pump after a failure, and
\* fresh items are left for a later queue_data call
C6_Witness ==
    \E j \in JobIds :
        /\ dereg_sent[j] = 1
        /\ sent[j] /= <<>>
        /\ emitted[j] /= <<>>
        /\ ~produced[j][Last(emitted[j])].ok
        /\ next_item < MaxItems

\* ---------------------------------------------------------------------- C7
\* C7: the items process_batch received are a prefix of the items queued,
\* in order and without repetition; for a registered entry every queued
\* item is in a delivered batch, in the buffer or still on the task queue;
\* an execution that runs process_batch takes the whole buffer.
C7_BatchesInOrder ==
    \A j \in JobIds :
        /\ IsPrefix(Delivered(j), sent[j])
        /\ StrictlyIncreasing(sent[j])
        /\ j \in DOMAIN job_entries =>
              sent[j] = Delivered(j) \o job_entries[j].buffer \o InFlight(j)
        /\ \A i \in 1 .. Len(produced[j]) :
              produced[j][i].pb => produced[j][i].left = 0

\* one execution received a batch of two items that were queued separately
C7_Witness ==
    \E j \in JobIds : \E i \in 1 .. Len(produced[j]) :
        Len(produced[j][i].batch) = 2

\* ---------------------------------------------------------------------- C8
\* C8: the worker holds at most one live instance per context id, the live
\* instances are the ones in the table, and two executions that received
\* different instances of one id are separated by the older one's destroy.
C8_OneInstancePerId ==
    /\ \A a, b \in live : a[1] = b[1] => a = b
    /\ live = {<<c, instance_table[c]>> : c \in DOMAIN instance_table}
    /\ \A j, k \in JobIds :
          \A i \in 1 .. Len(produced[j]), m \in 1 .. Len(produced[k]) :
             \A a \in produced[j][i].insts, b \in produced[k][m].insts :
                (a[1] = b[1] /\ a[2] < b[2]) => a \notin live

\* two different jobs were executed with the same instance
C8_Witness ==
    \E j, k \in JobIds :
        /\ j /= k
        /\ \E i \in 1 .. Len(produced[j]), m \in 1 .. Len(produced[k]) :
              produced[j][i].insts \cap produced[k][m].insts /= {}

\* ---------------------------------------------------------------------- C9
\* the instances of the table whose id no registered entry references
Unreferenced ==
    {a \in live : a[1] \notin active_context_ids_of(job_entries)}

\* C9: at every admin pass (the queue is drained and the loop goes on to
\* clean up and schedule) the instances destroyed are exactly the ones that
\* no registered entry references.
C9_CleanupExact ==
    [][(pc = "admin" /\ pc' /= "admin") => live \ live' = Unreferenced]_vars

\* -------------------------------------------------- the dispatcher's contract
\* the context ids in use by the jobs registered on process q
ActiveOn(q) ==
    UNION {Range(v.val) : v \in active_context_ids(p_job_context_ids[q])}

\* a tuple is internally compatible iff no element's negative_affinity is
\* among the tags of the other elements
InternallyCompatible(t) ==
    \A i, k \in 1 .. Len(t) :
        i /= k => PoolContextDef[t[i]].negative_affinity
                     \notin PoolContextDef[t[k]].tags

\* a compatible tuple is placeable on q iff every id is active there or below
\* its max_instances, and no negative affinity links it to an active context
Placeable(q, t) ==
    /\ InternallyCompatible(t)
    /\ \A i \in 1 .. Len(t) :
          /\ \/ t[i] \in ActiveOn(q)
             \/ PoolContextDef[t[i]].max_instances = -1
             \/ Cardinality({r \in Procs : t[i] \in ActiveOn(r)})
                   < PoolContextDef[t[i]].max_instances
          /\ \A c \in ActiveOn(q) :
                /\ PoolContextDef[t[i]].negative_affinity
                      \notin PoolContextDef[c].tags
                /\ PoolContextDef[c].negative_affinity
                      \notin PoolContextDef[t[i]].tags

\* the tuples of the Cartesian product of the tags' context ids
Candidates(tags) ==
    {t \in [1 .. Len(tags) -> DOMAIN PoolContextDef] :
        \A i \in 1 .. Len(tags) : tags[i] \in PoolContextDef[t[i]].tags}

PlaceablePairs(tags) ==
    {a \in Procs \X Candidates(tags) : Placeable(a[1], a[2])}

RECURSIVE CostSum(_)
CostSum(S) ==
    IF S = {} THEN 0
    ELSE LET c == CHOOSE x \in S : TRUE
         IN PoolContextDef[c].creation_cost + CostSum(S \ {c})

\* 1 - utilization - creation_cost, in tenths
PairScore(q, t) == 10 - p_utilization[q] - CostSum(Range(t) \ ActiveOn(q))

Unmatched(tags) ==
    \E i \in 1 .. Len(tags) :
        \A c \in DOMAIN PoolContextDef : tags[i] \notin PoolContextDef[c].tags

\* a step in which a register_job call has left its record
CallStep == p_call' /= p_call

ManagersUnchanged ==
    UNCHANGED <<p_next_job_id, p_job_context_ids, p_registered>>

\* --------------------------------------------------------------------- C12
\* C12: register_job with no tags succeeds and registers the job, with no
\* contexts, on the least utilized worker (the lowest id among equals) and on
\* no other worker.
C12_EmptyTagsSucceed ==
    [][(CallStep /\ p_call'.tags = <<>>) =>
          /\ p_call'.outcome = "ok"
          /\ p_call'.context_ids = <<>>
          /\ \A q \in Procs :
                \/ p_utilization[q] > p_utilization[p_call'.process]
                \/ (p_utilization[q] = p_utilization[p_call'.process]
                    /\ q >= p_call'.process)
          /\ \A q \in Procs :
                Cardinality(p_registered'[q]) =
                    Cardinality(p_registered[q])
                       + (IF q = p_call'.process THEN 1 ELSE 0)]_vars

\* --------------------------------------------------------------------- C13
C13_Step ==
    CallStep =>
        /\ Unmatched(p_call'.tags) =>
              p_call'.outcome = "KeyError: tag matched 0 definitions"
        /\ (p_call'.tags /= <<>> /\ ~Unmatched(p_call'.tags)
            /\ PlaceablePairs(p_call'.tags) = {}) =>
              p_call'.outcome = "RuntimeError: no valid assignment"
        /\ p_call'.outcome \in {"KeyError: tag matched 0 definitions",
                                "RuntimeError: no valid assignment"} =>
              (p_call'.process = NoProc /\ ManagersUnchanged)

\* C13: a register_job call with a tag that no context carries ends in the
\* not-found error, one with no placeable pair in the no-placement error, and
\* in both cases no manager's register_job is called and no manager changes.
C13_FailedCallChangesNothing == [][C13_Step]_vars

\* both errors have been raised, the no-placement one by the last call
C13_Witness ==
    /\ p_call.outcome = "RuntimeError: no valid assignment"
    /\ p_call.process = NoProc
    /\ "KeyError: tag matched 0 definitions" \in p_outcomes

\* --------------------------------------------------------------------- C14
\* C14: a register_job call with tags for which a placeable pair exists
\* forwards the job to a placeable pair of maximal score.
C14_BestScore ==
    [][(CallStep /\ p_call'.tags /= <<>> /\ ~Unmatched(p_call'.tags)
        /\ PlaceablePairs(p_call'.tags) /= {}) =>
          /\ p_call'.process /= NoProc
          /\ <<p_call'.process, p_call'.context_ids>>
                \in PlaceablePairs(p_call'.tags)
          /\ \A a \in PlaceablePairs(p_call'.tags) :
                PairScore(a[1], a[2])
                   <= PairScore(p_call'.process, p_call'.context_ids)]_vars

\* --------------------------------------------------------------------- C15
C15_InRange ==
    /\ 0 <= utilization(u_counters)[1]
    /\ utilization(u_counters)[1] <= utilization(u_counters)[2]

C15_ZeroStep ==
    (u_calls' = u_calls + 1 /\ u_call'.increment_ns = 0) =>
        utilization(u_counters')[1] * utilization(u_counters)[2]
           = utilization(u_counters)[1] * utilization(u_counters')[2]

\* C15: after any increments of non-negative duration the utilization is in
\* [0, 1], and an increment of zero duration leaves it as it was.
C15_UtilizationInRange == []C15_InRange /\ [][C15_ZeroStep]_vars

\* a zero increment was handled while the window held idle and busy time and
\* had already dropped old increments
C15_Witness ==
    /\ u_call.increment_ns = 0
    /\ u_calls > Len(u_increments)
    /\ u_counters.idle > 0
    /\ u_counters.idle < u_counters.total
    /\ ~u_call.raised

\* --------------------------------------------------------------------- C16
C16_Inv ==
    b_max_size /= NoSize =>
        /\ 0 <= b_curr_size
        /\ b_curr_size <= b_max_size
        /\ b_offset + b_curr_size = Len(b_admitted)
        /\ buffer_get = SubSeq(b_admitted, b_offset + 1, b_offset + b_curr_size)

C16_PurgeStep ==
    (b_call' /= b_call /\ b_call'.op = "purge") =>
        b_curr_size' = b_curr_size
            - (IF b_call'.n < b_curr_size THEN b_call'.n ELSE b_curr_size)

\* C16: after any appends and purges 0 <= len <= capacity and the view is the
\* admitted samples without the purged prefix; purge(n) decreases len by
\* min(n, len), also when n exceeds len.
C16_BufferWindow == []C16_Inv /\ [][C16_PurgeStep]_vars

\* ------------------------------------------------- the stabilizer's contract
Texts(h) == [i \in 1 .. Len(h) |-> h[i].text]

\* the hypotheses agree on their first k words
AgreeOn(hs, k) ==
    \A i \in 1 .. Len(hs) :
        /\ Len(hs[i]) >= k
        /\ SubSeq(Texts(hs[i]), 1, k) = SubSeq(Texts(hs[1]), 1, k)

\* the length of the longest prefix the hypotheses agree on
CommonPrefixLen(hs) ==
    CHOOSE k \in 0 .. Len(hs[1]) :
        /\ AgreeOn(hs, k)
        /\ \A j \in k + 1 .. Len(hs[1]) : ~AgreeOn(hs, j)

RECURSIVE IsSubsequence(_, _)
IsSubsequence(s, t) ==
    IF s = <<>> THEN TRUE
    ELSE IF t = <<>> THEN FALSE
    ELSE IF Head(s) = Head(t) THEN IsSubsequence(Tail(s), Tail(t))
    ELSE IsSubsequence(s, Tail(t))

\* h without its leading segments that start before t
NotBefore(h, t) ==
    LET k == CHOOSE k \in 0 .. Len(h) :
                /\ \A i \in 1 .. k : h[i].start < t
                /\ k = Len(h) \/ h[k + 1].start >= t
    IN SubSeq(h, k + 1, Len(h))

AppendStep == l_appends' = l_appends + 1

\* --------------------------------------------------------------------- C17
\* C17: after append_transcription, every word of the common prefix of the d
\* most recent hypotheses has been committed or finalized, whatever the
\* timestamps of the words.
C17_AgreedPrefixCommitted ==
    (l_call.op = "append_transcription"
        /\ Len(l_recent) = l_local_agree_dim) =>
        IsSubsequence(SubSeq(Texts(l_recent[1]), 1, CommonPrefixLen(l_recent)),
                      l_settled)

C17_Step ==
    AppendStep =>
        LET admitted == NotBefore(Last(l_recent'), l_commited_time)
            pushed == Append(l_in_progress_segments, admitted)
            held == IF Len(pushed) > l_local_agree_dim THEN Tail(pushed)
                    ELSE pushed
            k == CommonPrefixLen(held)
        IN IF Len(held) < l_local_agree_dim
           THEN /\ l_commited_segments' = l_commited_segments
                /\ l_in_progress_segments' = held
           ELSE /\ l_commited_segments' =
                      l_commited_segments \o SubSeq(Last(held), 1, k)
                /\ l_in_progress_segments' =
                      [i \in 1 .. Len(held) |->
                          SubSeq(held[i], k + 1, Len(held[i]))]

\* C17 (amended): the segments append_transcription commits are the longest
\* word-by-word common prefix of the d most recent hypotheses as held, each
\* without the leading segments that started before committed_time when it
\* was supplied and without what was committed or force-finalized since.
C17_HeldPrefixCommitted == [][C17_Step]_vars

C17_Witness ==
    /\ l_call.op = "append_transcription"
    /\ l_local_agree_dim = 2
    /\ Len(l_commited_segments) = 2
    /\ Len(l_recent[1]) = 2
    /\ Len(l_recent[2]) = 2

\* --------------------------------------------------------------------- C18
\* C18: with time-ordered hypotheses the committed segments form a
\* non-decreasing timeline and committed_time is the end of the segment
\* committed last, or 0 if none ever was.
C18_Timeline ==
    /\ \A i \in 1 .. Len(l_commited_segments) - 1 :
          l_commited_segments[i].end <= l_commited_segments[i + 1].start
    /\ l_commited_time =
          (IF l_last_commit = <<>> THEN 0 ELSE l_last_commit[1].end)

C18_Witness ==
    /\ l_local_agree_dim = 1
    /\ l_appends = 2
    /\ Len(l_commited_segments) = 2
    /\ Len(l_recent[1]) = 2
    /\ l_recent[1][1].start < l_commited_segments[1].end
    /\ l_commited_segments[2] = l_recent[1][2]

\* --------------------------------------------------------------------- C19
\* the text ends in '.', '?' or '!' but not in '...'
SentenceEnding(text) ==
    /\ Len(text) >= 1
    /\ text[Len(text)] \in {".", "?", "!"}
    /\ ~(Len(text) >= 3 /\ \A i \in Len(text) - 2 .. Len(text) : text[i] = ".")

\* the positions of the sentence-ending segments of c
SentenceEnds(c) == {i \in 1 .. Len(c) : SentenceEnding(c[i].text)}

FirstEnd(c) ==
    IF SentenceEnds(c) = {} THEN 0
    ELSE CHOOSE i \in SentenceEnds(c) : \A j \in SentenceEnds(c) : i <= j

LastEnd(c) ==
    IF SentenceEnds(c) = {} THEN 0
    ELSE CHOOSE i \in SentenceEnds(c) : \A j \in SentenceEnds(c) : i >= j

PopStep == l_call' /= l_call /\ l_call'.op = "pop_finalized"

\* pop_finalized returns and removes the first k committed segments
PopsRun(k) ==
    /\ l_call'.returned =
          (IF k = 0 THEN NoSequence
           ELSE segments_to_sequence(SubSeq(l_commited_segments, 1, k)))
    /\ l_commited_segments' =
          SubSeq(l_commited_segments, k + 1, Len(l_commited_segments))
    /\ UNCHANGED <<l_in_progress_segments, l_commited_time,
                   l_local_agree_dim>>

\* C19: pop_finalized returns and removes the committed segments up to and
\* including the first sentence-ending one, leaves the later ones in place,
\* and returns none and changes nothing when no segment ends a sentence.
C19_PopsFirstSentence ==
    [][PopStep => PopsRun(FirstEnd(l_commited_segments))]_vars

\* C19 (amended): pop_finalized returns and removes the committed segments up
\* to and including the last sentence-ending one, every complete sentence at
\* once, leaves the later segments in place, and returns none and changes
\* nothing when no segment ends a sentence.
C19_PopsAllSentences ==
    [][PopStep => PopsRun(LastEnd(l_commited_segments))]_vars

C19_Witness ==
    /\ l_call.op = "pop_finalized"
    /\ Len(l_call.returned.text) = 2
    /\ \A i \in 1 .. 2 : SentenceEnding(l_call.returned.text[i])
    /\ Len(l_commited_segments) = 1

\* --------------------------------------------------------------------- C20
\* a force_finalized call that follows a force_finalized call with the same
\* end_time, no append_transcription in between
ForceAgainStep ==
    /\ l_call.op = "force_finalized"
    /\ l_call'.op = "force_finalized"
    /\ l_call'.end_time = l_call.end_time
    /\ l_appends' = l_appends

\* C20: force_finalized(t) called twice in a row with the same t returns none
\* the second time and the second call leaves the stabilizer as it was.
C20_ForceTwice ==
    [][ForceAgainStep =>
          /\ l_call'.returned = NoSequence
          /\ UNCHANGED <<l_commited_segments, l_in_progress_segments,
                         l_commited_time, l_local_agree_dim>>]_vars

C20_Witness ==
    /\ l_call.op = "force_finalized"
    /\ l_call.returned = NoSequence
    /\ l_appends = 1
    /\ l_last_commit = <<>>
    /\ Len(l_settled) = 1
    /\ Len(l_in_progress_segments) = 1
    /\ Len(l_in_progress_segments[1]) = 1
    /\ l_in_progress_segments[1][1].start = l_call.end_time

\* --------------------------------------------------------------------- C21
IsSuffix(s, t) ==
    Len(s) <= Len(t) /\ SubSeq(t, Len(t) - Len(s) + 1, Len(t)) = s

\* what get_in_progress returns starts with the committed segments, in commit
\* order, and goes on with what is left of the newest hypothesis
C21_View ==
    ~get_in_progress.raised =>
        LET r == get_in_progress.returned
            c == l_commited_segments
            n == l_in_progress_segments[Len(l_in_progress_segments)]
        IN /\ Len(r.text) = Len(c) + Len(n)
           /\ \A i \in 1 .. Len(c) :
                 /\ r.text[i] = c[i].text
                 /\ r.starts[i] = c[i].start
                 /\ r.ends[i] = c[i].end
           /\ \A i \in 1 .. Len(n) :
                 /\ r.text[Len(c) + i] = n[i].text
                 /\ r.starts[Len(c) + i] = n[i].start
                 /\ r.ends[Len(c) + i] = n[i].end

\* append_transcription keeps every committed segment where it is; segments
\* leave, from the front, in pop_finalized and force_finalized only
C21_Step ==
    /\ AppendStep => IsPrefix(l_commited_segments, l_commited_segments')
    /\ ~IsPrefix(l_commited_segments, l_commited_segments') =>
          /\ l_call'.op \in {"pop_finalized", "force_finalized"}
          /\ ~l_call'.returned.none
          /\ IsSuffix(l_commited_segments', l_commited_segments)

\* C21: a committed segment is never removed or changed by a later
\* hypothesis; get_in_progress starts with the committed segments in commit
\* order followed by the rest of the newest hypothesis; committed segments
\* leave only through pop_finalized or force_finalized.
C21_CommittedStays == []C21_View /\ [][C21_Step]_vars

C21_Witness ==
    /\ l_local_agree_dim = 1
    /\ l_appends = 2
    /\ l_call.op = "append_transcription"
    /\ Len(l_commited_segments) = 2
    /\ l_recent[1][1].text /= l_commited_segments[1].text
    /\ ~get_in_progress.raised
    /\ get_in_progress.returned.text[1] = l_commited_segments[1].text

\* --------------------------------------------------------------------- C22
ProcessStep == j_calls' = j_calls + 1

C22_Step ==
    (ProcessStep /\ j_result'.raised = "none") =>
        /\ 0 <= j_buffer_len'
        /\ j_buffer_len' <= 2 * MaxBufferSamples
        /\ j_buffer_offset_samples' >= j_buffer_offset_samples

\* C22: after a process_batch call that returns normally the buffer holds
\* between 0 and 2 x max_buffer_samples samples and offset_samples has not
\* decreased, for every batch and every decoder output.
C22_BufferAndOffset == [][C22_Step]_vars

C22_Witness ==
    /\ j_result.raised = "none"
    /\ ~j_result.forced.none
    /\ ~j_result.popped.none
    /\ j_buffer_offset_samples > MaxBufferSamples
    /\ j_buffer_len > 0

\* --------------------------------------------------------------------- C23
\* the segments of a sequence, one per position
SegmentsIn(sequence) ==
    [i \in 1 .. Len(sequence.text) |->
        <<sequence.text[i], sequence.starts[i], sequence.ends[i]>>]

\* C23: when a call forced finalization and the stabilizer returned a
\* forced_final, the final of the call is the forced-finalized segments, each
\* once, followed by the segments of pop_finalized if any, and last_finalized
\* is the concatenation of exactly that text.
C23_ForcedThenPopped ==
    (j_result.raised = "none" /\ ~j_result.forced.none) =>
        /\ SegmentsIn(j_result.final) =
              SegmentsIn(j_result.forced) \o SegmentsIn(j_result.popped)
        /\ j_last_finalized =
              Flatten(j_result.forced.text \o j_result.popped.text)

\* ------------------------------------------------ the connection's contract
\* the step handled a message of this kind
Received(kind) == c_last'.step = "receive" /\ c_last'.msg.kind = kind

\* the step called close() once, with this code
ClosesOnce(code) == Len(c_last'.closes) = 1 /\ c_last'.closes[1].code = code

\* the step called close() once, with this code and reason
ClosesWith(code, reason) ==
    c_last'.closes = <<[code |-> code, reason |-> reason]>>

\* the step called close() on a connection that is open and that nothing
\* has asked to close yet
FirstClose ==
    /\ c_application_state = "CONNECTED"
    /\ c_tasks = <<>>
    /\ c_last'.closes # <<>>

\* the _close() task created first stays the oldest until it runs, and it
\* is the one that closes the websocket
ClosesWithOldest ==
    (c_application_state = "CONNECTED" /\ c_tasks # <<>>) =>
        \/ /\ c_application_state' = "CONNECTED"
           /\ c_tasks' # <<>>
           /\ Head(c_tasks') = Head(c_tasks)
        \/ /\ c_application_state' = "DISCONNECTED"
           /\ c_ws_close' = Head(c_tasks)

\* --------------------------------------------------------------------- C24
\* C24: a chunk is forwarded only when a valid auth message and, after it, a
\* config message were accepted; a config message before the auth or after
\* the session was created, a chunk before the auth or before the session,
\* and an auth message after the auth forward nothing, create no session and
\* call close() with code 1008, which closes the websocket with that code
\* when nothing had asked to close it before; no connection creates a second
\* session.
OutOfOrder ==
    \/ Received("auth") /\ c_is_authenticated
    \/ Received("config") /\ (~c_is_authenticated \/ c_sessions_created > 0)
    \/ Received("bytes") /\ (~c_is_authenticated \/ c_sessions_created = 0)

C24_Step ==
    /\ c_forwarded' # c_forwarded =>
           /\ Received("bytes")
           /\ c_is_authenticated
           /\ c_sessions_created = 1
    /\ c_sessions_created' # c_sessions_created =>
           /\ Received("config")
           /\ c_is_authenticated
           /\ c_sessions_created = 0
    /\ c_is_authenticated' # c_is_authenticated =>
           /\ Received("auth")
           /\ c_last'.msg.outcome = "accept"
           /\ c_is_authenticated'
    /\ OutOfOrder =>
           /\ c_forwarded' = c_forwarded
           /\ c_sessions_created' = c_sessions_created
           /\ c_session' = c_session
           /\ ClosesOnce(1008)
           /\ FirstClose => c_tasks' = c_last'.closes
    /\ ClosesWithOldest

C24_AuthConfigAudio ==
    /\ [](c_sessions_created <= 1)
    /\ [](c_forwarded > 0 => c_is_authenticated /\ c_sessions_created = 1)
    /\ [][C24_Step]_vars

\* a second config message closed a connection that had forwarded audio
C24_Witness ==
    /\ c_ws_close = [code |-> 1008, reason |-> "Unexpected Config Message"]
    /\ c_forwarded > 0
    /\ c_sessions_created = 1

\* --------------------------------------------------------------------- C25
\* C25: when the init timeout elapses it calls close() with 1008 "Auth
\* Timeout" if no auth was accepted, with 1008 "Config Timeout" if the auth
\* was accepted and no session was created, and does not call close() if the
\* session was created; on an open connection that nothing had asked to
\* close this closes the websocket with that code and reason; a _close()
\* task that runs after the websocket was closed changes nothing, and after
\* the client's disconnect the timeout no longer elapses.
C25_Step ==
    /\ c_last'.step = "timeout" =>
           /\ ~c_is_authenticated => ClosesWith(1008, "Auth Timeout")
           /\ c_is_authenticated /\ c_sessions_created = 0 =>
                  ClosesWith(1008, "Config Timeout")
           /\ c_sessions_created > 0 =>
                  /\ c_last'.closes = <<>>
                  /\ c_tasks' = c_tasks
           /\ FirstClose => c_tasks' = c_last'.closes
           /\ c_application_state' = c_application_state
           /\ c_ws_close' = c_ws_close
    /\ ClosesWithOldest
    /\ c_application_state = "DISCONNECTED" =>
           /\ c_application_state' = "DISCONNECTED"
           /\ c_ws_close' = c_ws_close

C25_InitTimeout ==
    /\ [](c_client_state = "DISCONNECTED" => c_timeout_task # "SLEEPING")
    /\ [][C25_Step]_vars

\* the timeout closed a connection that had authenticated
C25_Witness ==
    /\ c_ws_close = [code |-> 1008, reason |-> "Config Timeout"]
    /\ c_is_authenticated
    /\ c_timeout_task = "DONE"

\* --------------------------------------------------------------------- C26
\* C26: every error, raised by a handler or emitted by the session, makes
\* the step call close(): a validation error with 1007 "Invalid message
\* format", a client-transcription error with 1007 and its message, any
\* other error with 1011 "Internal Server Error".
ClosesFor(error) ==
    IF error = "ValidationError" THEN ClosesWith(1007, "Invalid message format")
    ELSE IF error = "TranscriptionClientError"
    THEN ClosesWith(1007, ClientErrorMessage)
    ELSE ClosesWith(1011, "Internal Server Error")

C26_Step == c_last'.error # "None" => ClosesFor(c_last'.error)

C26_EveryErrorCloses == [][C26_Step]_vars

\* --------------------------------------------------------------------- C27
\* C27: once send_terminate was called the worker reaches the return of
\* execution_loop with TERMINATE taken from the queue and no context
\* instance left live, and wait_shutdown returns; from the moment TERMINATE
\* is applied no job is executed and no task is taken from the queue.
Terminated ==
    /\ pc = "exited"
    /\ live = {}
    /\ \A i \in 1 .. Len(task_queue) : task_queue[i].type # "TERMINATE_WORKER"
    /\ wait_shutdown_returns

C27_AfterTerminate ==
    (should_exit \/ wait_shutdown_returns) =>
        /\ produced' = produced
        /\ executing' = executing
        /\ job_entries' = job_entries
        /\ IsPrefix(task_queue, task_queue')

C27_TerminateExits ==
    /\ (~poller_running) ~> Terminated
    /\ [][C27_AfterTerminate]_vars

\* --------------------------------------------------------------------- C28
\* C28: when the pump takes a Failure result of a job whose handle is still
\* registered, it emits the result and deregisters the handle in the same
\* step: the job's context ids are dropped from the active ones, exactly one
\* DEREGISTER_JOB task is put on the queue, no event is emitted for the job
\* afterwards and no second DEREGISTER_JOB is ever sent; the worker
\* eventually removes the job's entry.
FailureEmitted(j) ==
    /\ emitted[j] # <<>>
    /\ ~produced[j][Last(emitted[j])].ok

C28_Step ==
    \A j \in JobIds :
        /\ (~FailureEmitted(j) /\ FailureEmitted(j)') =>
               /\ j \in registered_job_handles
               /\ j \notin registered_job_handles'
               /\ j \in DOMAIN job_context_ids
               /\ j \notin DOMAIN job_context_ids'
               /\ task_queue' = Append(task_queue,
                      [type |-> "DEREGISTER_JOB", job_id |-> j])
               /\ dereg_sent[j] = 0
               /\ dereg_sent'[j] = 1
        /\ FailureEmitted(j) =>
               /\ emitted'[j] = emitted[j]
               /\ dereg_sent'[j] = 1
               /\ j \notin registered_job_handles'
               /\ j \notin DOMAIN job_context_ids'

C29_TieLowestJobId ==
    pc = "exec" =>
        \A j \in DOMAIN job_entries :
            (/\ job_entries[j].state = "READY"
             /\ deadline_ns(job_entries[j]) = deadline_ns(job_entries[cur_job]))
                => cur_job <= j

\* the job chosen shares its deadline with another READY entry
C29_Witness ==
    /\ pc = "exec"
    /\ \E j \in DOMAIN job_entries :
          /\ j # cur_job
          /\ job_entries[j].state = "READY"
          /\ deadline_ns(job_entries[j]) = deadline_ns(job_entries[cur_job])

\* --------------------------------------------------------------------- C30
\* C30: whenever _assign_process chooses a pair for a call with tags, no
\* placeable pair of the highest score, with whichever tuple, is on a worker
\* with a lower id than the chosen one.
BestPairs(tags) ==
    {a \in PlaceablePairs(tags) :
        \A b \in PlaceablePairs(tags) : PairScore(b[1], b[2]) <= PairScore(a[1], a[2])}

C30_Step ==
    (CallStep /\ p_call'.tags /= <<>> /\ p_call'.process /= NoProc) =>
        \A a \in BestPairs(p_call'.tags) : p_call'.process <= a[1]

C31_CompatibleIffNoOtherTag ==
    \A context_ids \in Candidates(p_call.tags) :
        context_ids_are_compatible(context_ids)
            <=> InternallyCompatible(context_ids)

\* --------------------------------------------------------------------- C32
\* the Dispatcher's membership test for context id c on worker q after a step
ActiveAfter(c, q) == PyInt(c) \in active_context_ids(p_job_context_ids'[q])

C32_Step ==
    CallStep =>
        LET a == assign_process(p_call'.tags)
        IN a.outcome = "ok" =>
              \A c \in DOMAIN PoolContextDef :
                  ActiveAfter(c, a.process) <=>
                      \/ c \in Range(a.context_ids)
                      \/ is_active(c, a.process)

\* C32: a manager's active_context_ids is the union of the context ids of the
\* jobs registered on it, each id of a multi-context job included: once the
\* pool has placed a job on a worker, the membership test for a context id on
\* that worker is true exactly for the ids of the placed job and the ids that
\* were active there before.
C32_ActiveIdsAreUnion == [][C32_Step]_vars

\* --------------------------------------------------------------------- C33
\* a step of execution_loop that runs _cleanup_unused_context
CleanupPass == pc = "admin" /\ task_queue = <<>> /\ pc' /= "admin"

C33_Step ==
    CleanupPass =>
        /\ pc' /= "crashed"
        /\ DOMAIN instance_table' \subseteq active_context_ids_of(job_entries)

\* C33: a pass of destroy_unused in which a destroy may fail leaves the
\* worker running, and every unused instance is destroyed and removed from
\* the table in that pass.
C33_CleanupSurvivesDestroyFailure == [][C33_Step]_vars

\* --------------------------------------------------------------------- C34
\* the durations of the retained increments, summed
RECURSIVE RetainedSum(_)
RetainedSum(incs) ==
    IF incs = <<>> THEN 0 ELSE Head(incs)[2] + RetainedSum(Tail(incs))

\* some increment has been evicted
Evicted == Len(u_increments) < u_calls

\* original statement: with any increment retained the total is at least the
\* window
C34_TotalAtLeastWindow ==
    (u_window /= NoWindow /\ u_increments /= <<>>) =>
        u_counters.total >= u_window

C34_Inv ==
    u_window /= NoWindow =>
        /\ u_counters.total = RetainedSum(u_increments)
        /\ Evicted => u_counters.total >= u_window
        /\ u_increments /= <<>> =>
              u_counters.total - u_increments[1][2] < u_window

C34_Step ==
    u_calls' = u_calls + 1 =>
        LET all == Append(u_increments,
                          <<u_call'.state, u_call'.increment_ns>>)
        IN \E k \in 0 .. Len(all) :
              u_increments' = SubSeq(all, k + 1, Len(all))

\* C34: the total is the sum of the retained increments; once an increment
\* has been evicted the total is at least the window, while before the first
\* eviction it is the whole history and may be below the window; the head is
\* kept exactly when removing it would leave less than the window; an
\* increment call removes only whole entries from the head.
C34_SoftWindow == []C34_Inv /\ [][C34_Step]_vars

\* two entries were evicted by one call and the retained ones add up to at
\* least a positive window
C34_Witness ==
    /\ u_window > 0
    /\ u_calls = Len(u_increments) + 2
    /\ Len(u_increments) >= 2
    /\ u_counters.total >= u_window
    /\ ~u_call.raised

\* --------------------------------------------------------------------- C35
\* no committed segment is held and the newest hypothesis, if there is one,
\* holds no segment
NothingInProgress ==
    /\ l_local_agree_dim /= NoDim
    /\ l_commited_segments = <<>>
    /\ \/ l_in_progress_segments = <<>>
       \/ l_in_progress_segments[Len(l_in_progress_segments)] = <<>>

\* C35: get_in_progress returns None without raising whenever no committed
\* segment is held and the newest hypothesis holds no segment, also before
\* the first hypothesis was appended.
C35_NoneWhenNothingInProgress ==
    NothingInProgress =>
        get_in_progress = [raised |-> FALSE, returned |-> NoSequence]

\* --------------------------------------------------------------------- C36
\* the results the worker has put in this step
NewResults ==
    IF Len(result_queue') > Len(result_queue)
    THEN SubSeq(result_queue', Len(result_queue) + 1, Len(result_queue'))
    ELSE <<>>

NewStateChanges == SelectSeq(NewResults, LAMBDA r : r.type = "STATE_CHANGE")

C36_Inv ==
    /\ state \in WorkerStates
    /\ elapsed_ns = last_state_change
    /\ last_state_change <= now

C36_Step ==
    /\ Len(NewStateChanges) = (IF state' /= state THEN 1 ELSE 0)
    /\ \A i \in 1 .. Len(NewStateChanges) :
          /\ NewStateChanges[i].state = state
          /\ NewStateChanges[i].time_elapsed_ns
                = last_state_change' - last_state_change
    /\ state' = state => last_state_change' = last_state_change

\* C36: the worker is in one of ADMIN, IDLE, BUSY; a StateChangeResult is put
\* exactly when the state changes, names the state being left and carries the
\* time since the previous change, so that the values put so far add up to
\* the time from the worker's start to the latest state change.
C36_StateTimeAccounted == []C36_Inv /\ [][C36_Step]_vars

\* the worker has idled and is now executing a job after an earlier result,
\* with time accounted in between
C36_Witness ==
    /\ state = "BUSY"
    /\ elapsed_ns > 0
    /\ elapsed_ns = now
    /\ \E j \in JobIds : produced[j] /= <<>>

\* --------------------------------------------------------------------- C38
\* C38: append_transcription never raises, whichever hypotheses it is given:
\* also for a hypothesis that is empty, or is emptied by the drop of its
\* segments before committed_time, while an older held hypothesis still has
\* segments.
C38_AppendNeverRaises ==
    l_call.op = "append_transcription" => ~l_call.raised

\* --------------------------------------------------------------------- C39
\* C39: once receive_messages has returned, by a client disconnect or after
\* a close the server initiated, a session created on the connection has
\* been ended; nothing ends it after the return.
C39_SessionEndedOnReturn == c_loop = "returned" => c_session # "Live"

\* --------------------------------------------------------------------- C40
\* a step that is an emit call
EmitStep == e_history'.emits = e_history.emits + 1

\* nobody has asked to remove registration i or its callback
Kept(i) == ~e_history.regs[i].removal

\* registration i is due on an emit of its event: a once() registration only
\* if it has not been called yet
Due(i) == e_history.regs[i].once => e_history.regs[i].calls = 0

C40_Inv ==
    \A i \in 1 .. Len(e_history.regs) :
        (Kept(i) /\ e_history.regs[i].once) => e_history.regs[i].calls <= 1

C40_Step ==
    EmitStep =>
        \A i \in 1 .. Len(e_history.regs) :
            Kept(i) =>
              e_history'.regs[i].calls =
                e_history.regs[i].calls
                   + (IF e_history.regs[i].event = e_history'.event /\ Due(i)
                      THEN 1 ELSE 0)

\* C40: every registration has its own lifetime: an on() registration is
\* called once by each emit of its event until its removal is asked for, a
\* once() registration by the first emit after it and by no other, also when
\* the same callback is registered on the event both ways.
C40_OwnLifetime == []C40_Inv /\ [][C40_Step]_vars

====
